---- MODULE Spec2Model ----
(***************************************************************************)
(* WaykNow client core: the connection coordinator and its sub-sequences,  *)
(* the Sharee top-level machine, the channels manager with the clipboard   *)
(* and chat channel machines, and the packet accumulator.                  *)
(*                                                                         *)
(* The sub-sequences (sub_sm.rs), DummyConnectionSM, the Sharee and the    *)
(* channels manager are written in the event-emitting shape; the           *)
(* coordinator (client_connection/mod.rs) and the host's AuthenticateSM    *)
(* (authentication.rs) are written in the Result-returning shape.  The two *)
(* shapes are joined by ResultOfEvents / EventsOfResult below: a           *)
(* sub-machine's update is an Err exactly when it emitted a Fatal event.   *)
(***************************************************************************)
EXTENDS Integers, Sequences, FiniteSets, TLC

VARIABLES
    state,            \* Sharee.state
    connection_seq,   \* Sharee.connection_seq : ClientConnectionSeqSM
    channels_manager, \* Sharee.channels_manager : ChannelsManager.state_machines
    sm_data,          \* Sharee.sm_data : SMData
    channels_ctx,     \* Sharee.channels_ctx : VirtChannelsCtx.entries
    events,           \* the event list returned by the last update call
    call,             \* the last update call: operation, argument, state before
    acc,              \* NowPacketAccumulator: buffer and cursor
    acc_ctx,          \* the VirtChannelsCtx handed to next_packet
    pending,          \* bytes of the peer's stream not yet handed to accumulate
    fed,              \* every byte handed to accumulate so far
    out,              \* every Some(result) returned by next_packet so far
    ret,              \* the last call on the accumulator and what it returned
    codec,            \* the last call on a header or a packet constructor, if
                      \* it was the last call on the serialization
    nstr,             \* the last call on a NowString, under the same condition
    prim              \* the last call on an enum, a NowStatus or a Cursor, under
                      \* the same condition

vars == <<state, connection_seq, channels_manager, sm_data, channels_ctx,
          events, call, acc, acc_ctx, pending, fed, out, ret, codec, nstr,
          prim>>

shareeVars == <<state, connection_seq, channels_manager, sm_data, channels_ctx,
                events, call>>

accVars == <<acc, acc_ctx, pending, fed, out, ret>>

codecVars == <<codec, nstr, prim>>

(***************************************************************************)
(* Bounds of the model.                                                    *)
(***************************************************************************)
MaxSeqId == 1       \* clipboard sequence ids are explored up to this value
MaxPackets == 2     \* whole packets in the byte stream of one run
MaxChunk == 3       \* longest chunk of one accumulate call

(***************************************************************************)
(* Helpers on sequences.                                                   *)
(***************************************************************************)
Range(s) == {s[i] : i \in 1..Len(s)}

RECURSIVE Filter(_, _)
Filter(s, keep) ==
    IF s = <<>> THEN <<>>
    ELSE IF Head(s) \in keep THEN <<Head(s)>> \o Filter(Tail(s), keep)
         ELSE Filter(Tail(s), keep)

(***************************************************************************)
(* Events (sm/mod.rs, SMEvent).  val is always a string, data a sequence.  *)
(***************************************************************************)
SMEvent(kind, val, data) == [kind |-> kind, val |-> val, data |-> data]

\* a transition names the state enum and the state entered
Transition(ty, s) == SMEvent("StateTransition", ty, <<s>>)

IsTransition(ev, ty, s) == ev.kind = "StateTransition" /\ ev.val = ty /\ ev.data = <<s>>
PacketToSend(ty, payload) == SMEvent("PacketToSend", ty, payload)
Data(name, payload) == SMEvent("Data", name, payload)
Warn(what) == SMEvent("Warn", what, <<>>)
Error(what) == SMEvent("Error", what, <<>>)
Fatal(what) == SMEvent("Fatal", what, <<>>)

CountKind(evs, kind) == Cardinality({i \in 1..Len(evs) : evs[i].kind = kind})

HasFatal(evs) == \E i \in 1..Len(evs) : evs[i].kind = "Fatal"

(***************************************************************************)
(* Messages a peer can send (message/mod.rs, NowMessage), reduced to the   *)
(* fields the state machines read.                                         *)
(***************************************************************************)
NowChannelDef(name, flags) == [name |-> name, flags |-> flags]

\* NowChannelDef::new : empty flags
NowChannelDef_new(name) == NowChannelDef(name, 0)

\* channel lists a peer sends in its list and open responses; the flags carry
\* the channel id in their low byte (258 is id 2 with a higher bit set); a
\* peer may give one id to two channels, or name a channel twice
PeerChannelLists ==
    {<<>>,
     <<NowChannelDef("Chat", 1)>>,
     <<NowChannelDef("Clipboard", 1), NowChannelDef("Chat", 258)>>,
     <<NowChannelDef("Clipboard", 1), NowChannelDef("Chat", 1)>>,
     <<NowChannelDef("Chat", 258), NowChannelDef("Custom", 3)>>,
     <<NowChannelDef("Chat", 1), NowChannelDef("Chat", 2)>>}

PeerAuthLists == {<<>>, <<"PFP">>, <<"SRP", "PFP">>, <<"None">>}

NowMsg(ty, sub, code, auths, defs) ==
    [type |-> ty, sub |-> sub, code |-> code, auth_list |-> auths, channel_list |-> defs]

HandshakeMsgs == {NowMsg("Handshake", "", c, <<>>, <<>>) :
                    c \in {"Success", "Failure", "Incompatible", "Other"}}
NegotiateMsgs == {NowMsg("Negotiate", "", "", l, <<>>) : l \in PeerAuthLists}
AuthenticateMsgs == {NowMsg("Authenticate", s, "", <<>>, <<>>) :
                       s \in {"Success", "Failure", "Token"}}
AssociateMsgs ==
    {NowMsg("Associate", "Info", a, <<>>, <<>>) : a \in {"active", "inactive"}}
    \cup {NowMsg("Associate", "Response", c, <<>>, <<>>) :
            c \in {"Success", "Failure", "Other"}}
CapabilitiesMsgs == {NowMsg("Capabilities", "", "", <<>>, <<>>)}
ChannelMsgs == {NowMsg("Channel", "", "", <<>>, l) : l \in PeerChannelLists}
OtherMsgs == {NowMsg("Activate", "", "", <<>>, <<>>), NowMsg("Terminate", "", "", <<>>, <<>>)}

Messages == HandshakeMsgs \cup NegotiateMsgs \cup AuthenticateMsgs \cup AssociateMsgs
            \cup CapabilitiesMsgs \cup ChannelMsgs \cup OtherMsgs

(***************************************************************************)
(* Joining the two shapes of ConnectionSM.                                 *)
(***************************************************************************)
\* the Result a sub-machine of the event shape hands to the coordinator
ResultOfEvents(evs) == IF HasFatal(evs) THEN "Err" ELSE "Ok"

\* the events a sub-machine of the Result shape hands to the Sharee
EventsOfResult(res, what) ==
    CASE res = "Err" -> <<Fatal(what)>>
      [] res = "ErrUnexpectedCall" -> <<Fatal("unexpected call to " \o what)>>
      [] res = "OkSome" -> <<PacketToSend("Authenticate", <<>>)>>
      [] OTHER -> <<>>

\* what one update of a sub-machine yields
SMResult(sm, data, evs) ==
    [sm |-> sm, data |-> data, events |-> evs, result |-> ResultOfEvents(evs)]

SubSM(kind, st) == [kind |-> kind, state |-> st, auth |-> "-"]

(***************************************************************************)
(* Connection sub-sequences (sm/client_connection/sub_sm.rs).              *)
(***************************************************************************)
\* unexpected_call! : a Fatal event
unexpected_call(name) == Fatal("unexpected call to " \o name)

\* variant: an unexpected message is fatal
unexpected_msg_fatal(name) == Fatal("unexpected message in " \o name)

\* unexpected_msg! : a Warn event
unexpected_msg(name) == Warn("unexpected message in " \o name)

HandshakeSM_new == SubSM("Handshake", "Initial")

HandshakeSM_update_without_message(sm, data) ==
    IF sm.state = "Initial"
    THEN SMResult([sm EXCEPT !.state = "Ready"], data,
                  <<PacketToSend("Handshake", <<>>), Transition("BasicState", "Ready")>>)
    ELSE SMResult(sm, data, <<unexpected_call("HandshakeSM")>>)

\* variant: an incompatible version is reported as a plain error
HandshakeSM_update_with_message_lenient(sm, data, msg) ==
    IF sm.state = "Ready"
    THEN IF msg.type = "Handshake"
         THEN CASE msg.code = "Success" ->
                     SMResult([sm EXCEPT !.state = "Terminated"], data,
                              <<Transition("BasicState", "Terminated")>>)
                [] msg.code = "Failure" ->
                     SMResult(sm, data, <<Fatal("handshake failed")>>)
                [] OTHER ->
                     SMResult(sm, data, <<Error("handshake status code")>>)
         ELSE SMResult(sm, data, <<unexpected_msg("HandshakeSM")>>)
    ELSE SMResult(sm, data, <<unexpected_call("HandshakeSM")>>)

HandshakeSM_update_with_message(sm, data, msg) ==
    IF sm.state = "Ready"
    THEN IF msg.type = "Handshake"
         THEN CASE msg.code = "Success" ->
                     SMResult([sm EXCEPT !.state = "Terminated"], data,
                              <<Transition("BasicState", "Terminated")>>)
                [] msg.code = "Failure" ->
                     SMResult(sm, data, <<Fatal("handshake failed")>>)
                [] msg.code = "Incompatible" ->
                     SMResult(sm, data, <<Fatal("version incompatible")>>)
                [] OTHER ->
                     SMResult(sm, data, <<Error("handshake status code")>>)
         ELSE SMResult(sm, data, <<unexpected_msg("HandshakeSM")>>)
    ELSE SMResult(sm, data, <<unexpected_call("HandshakeSM")>>)

NegotiateSM_new == SubSM("Negotiate", "Initial")

NegotiateSM_update_without_message(sm, data) ==
    IF sm.state = "Initial"
    THEN SMResult([sm EXCEPT !.state = "Ready"], data,
                  <<PacketToSend("Negotiate", data.supported_auths), Transition("BasicState", "Ready")>>)
    ELSE SMResult(sm, data, <<unexpected_call("NegotiateSM")>>)

\* variant: the peer's list is published as received
NegotiateSM_update_with_message_unfiltered(sm, data, msg) ==
    IF sm.state = "Ready"
    THEN IF msg.type = "Negotiate"
         THEN SMResult([sm EXCEPT !.state = "Terminated"], data,
                       <<Data("AvailableAuthTypes", msg.auth_list),
                         Transition("BasicState", "Terminated")>>)
         ELSE SMResult(sm, data, <<unexpected_msg("NegotiateSM")>>)
    ELSE SMResult(sm, data, <<unexpected_call("NegotiateSM")>>)

NegotiateSM_update_with_message(sm, data, msg) ==
    IF sm.state = "Ready"
    THEN IF msg.type = "Negotiate"
         THEN SMResult([sm EXCEPT !.state = "Terminated"], data,
                       <<Data("AvailableAuthTypes",
                              Filter(msg.auth_list, Range(data.supported_auths))),
                         Transition("BasicState", "Terminated")>>)
         ELSE SMResult(sm, data, <<unexpected_msg("NegotiateSM")>>)
    ELSE SMResult(sm, data, <<unexpected_call("NegotiateSM")>>)

AssociateSM_new == SubSM("Associate", "WaitInfo")

AssociateSM_update_without_message(sm, data) ==
    SMResult(sm, data, <<unexpected_call("AssociateSM")>>)

AssociateSM_update_with_message(sm, data, msg) ==
    CASE sm.state = "WaitInfo" ->
           IF msg.type = "Associate" /\ msg.sub = "Info"
           THEN SMResult([sm EXCEPT !.state = "WaitResponse"], data,
                         IF msg.code = "active"
                         THEN <<Transition("AssociateState", "WaitResponse")>>
                         ELSE <<PacketToSend("Associate", <<>>), Transition("AssociateState", "WaitResponse")>>)
           ELSE SMResult(sm, data, <<unexpected_msg("AssociateSM")>>)
      [] sm.state = "WaitResponse" ->
           IF msg.type = "Associate" /\ msg.sub = "Response"
           THEN CASE msg.code = "Success" ->
                       SMResult([sm EXCEPT !.state = "Terminated"], data,
                                <<Transition("AssociateState", "Terminated")>>)
                  [] msg.code = "Failure" ->
                       SMResult(sm, data, <<Fatal("Association failed")>>)
                  [] OTHER ->
                       SMResult(sm, data, <<Error("Associate status code")>>)
           ELSE SMResult(sm, data, <<unexpected_msg("AssociateSM")>>)
      [] OTHER -> SMResult(sm, data, <<unexpected_call("AssociateSM")>>)

CapabilitiesSM_new == SubSM("Capabilities", "Ready")

CapabilitiesSM_update_without_message(sm, data) ==
    SMResult(sm, data, <<unexpected_call("CapabilitiesSM")>>)

CapabilitiesSM_update_with_message(sm, data, msg) ==
    IF sm.state = "Terminated"
    THEN SMResult(sm, data, <<unexpected_call("CapabilitiesSM")>>)
    ELSE IF msg.type = "Capabilities"
         THEN SMResult([sm EXCEPT !.state = "Terminated"], data,
                       <<PacketToSend("Capabilities", <<>>), Transition("BasicState", "Terminated")>>)
         ELSE SMResult(sm, data, <<unexpected_msg("CapabilitiesSM")>>)

ChannelsSM_new == SubSM("Channels", "SendListRequest")

ChannelsSM_update_without_message(sm, data) ==
    CASE sm.state = "SendListRequest" ->
           SMResult([sm EXCEPT !.state = "WaitListResponse"], data,
                    <<PacketToSend("ChannelListRequest", data.channel_defs),
                      Transition("ChannelPairingState", "WaitListResponse")>>)
      [] sm.state = "SendOpenRequest" ->
           SMResult([sm EXCEPT !.state = "WaitOpenResponse"], data,
                    <<PacketToSend("ChannelOpenRequest", data.channel_defs),
                      Transition("ChannelPairingState", "WaitOpenResponse")>>)
      [] OTHER -> SMResult(sm, data, <<unexpected_call("ChannelsSM")>>)

\* the names of data.channel_defs the server's list lacks, in order
RECURSIVE UnavailableChannels(_, _)
UnavailableChannels(defs, offered) ==
    IF defs = <<>> THEN <<>>
    ELSE IF \E i \in 1..Len(offered) : offered[i].name = Head(defs).name
         THEN UnavailableChannels(Tail(defs), offered)
         ELSE <<Head(defs).name>> \o UnavailableChannels(Tail(defs), offered)

\* Vec::retain(|def| !unavailable.contains(&def.name))
RECURSIVE Retain(_, _)
Retain(defs, unavailable) ==
    IF defs = <<>> THEN <<>>
    ELSE IF Head(defs).name \in Range(unavailable)
         THEN Retain(Tail(defs), unavailable)
         ELSE <<Head(defs)>> \o Retain(Tail(defs), unavailable)

\* variant: the open response leaves the local list as it is
ChannelsSM_update_with_message_keep_local(sm, data, msg) ==
    CASE sm.state = "WaitListResponse" ->
           IF msg.type = "Channel"
           THEN LET unavailable == UnavailableChannels(data.channel_defs, msg.channel_list)
                    kept == IF unavailable # <<>>
                            THEN Retain(data.channel_defs, unavailable)
                            ELSE data.channel_defs
                    warn == IF unavailable # <<>>
                            THEN <<Warn("Unavailable channel(s) on server ignored")>>
                            ELSE <<>>
                IN SMResult([sm EXCEPT !.state = "SendOpenRequest"],
                            [data EXCEPT !.channel_defs = kept],
                            warn \o <<Data("Channels", kept), Transition("ChannelPairingState", "SendOpenRequest")>>)
           ELSE SMResult(sm, data, <<unexpected_msg("ChannelsSM")>>)
      [] sm.state = "WaitOpenResponse" ->
           IF msg.type = "Channel"
           THEN SMResult([sm EXCEPT !.state = "Terminated"], data,
                         <<PacketToSend("Activate", <<>>), Transition("ChannelPairingState", "Terminated")>>)
           ELSE SMResult(sm, data, <<unexpected_msg("ChannelsSM")>>)
      [] OTHER -> SMResult(sm, data, <<unexpected_call("ChannelsSM")>>)

ChannelsSM_update_with_message(sm, data, msg) ==
    CASE sm.state = "WaitListResponse" ->
           IF msg.type = "Channel"
           THEN LET unavailable == UnavailableChannels(data.channel_defs, msg.channel_list)
                    kept == IF unavailable # <<>>
                            THEN Retain(data.channel_defs, unavailable)
                            ELSE data.channel_defs
                    warn == IF unavailable # <<>>
                            THEN <<Warn("Unavailable channel(s) on server ignored")>>
                            ELSE <<>>
                IN SMResult([sm EXCEPT !.state = "SendOpenRequest"],
                            [data EXCEPT !.channel_defs = kept],
                            warn \o <<Data("Channels", kept), Transition("ChannelPairingState", "SendOpenRequest")>>)
           ELSE SMResult(sm, data, <<unexpected_msg("ChannelsSM")>>)
      [] sm.state = "WaitOpenResponse" ->
           IF msg.type = "Channel"
           THEN SMResult([sm EXCEPT !.state = "Terminated"],
                         [data EXCEPT !.channel_defs = msg.channel_list],
                         <<PacketToSend("Activate", <<>>), Transition("ChannelPairingState", "Terminated")>>)
           ELSE SMResult(sm, data, <<unexpected_msg("ChannelsSM")>>)
      [] OTHER -> SMResult(sm, data, <<unexpected_call("ChannelsSM")>>)

(***************************************************************************)
(* DummyConnectionSM (sm/mod.rs): always terminated, never waiting.        *)
(***************************************************************************)
DummyConnectionSM == SubSM("Dummy", "Dummy")

DummyConnectionSM_update(sm, data) ==
    SMResult(sm, data, <<Warn("call to DummyConnectionSM")>>)

(***************************************************************************)
(* The host's AuthenticateSM (wayk_cli_client/src/authentication.rs), of   *)
(* the Result shape: it reads the coordinator's shared data.               *)
(***************************************************************************)
AuthenticateSM_new(auth_type) ==
    [kind |-> "Authenticate", state |-> "Initial", auth |-> auth_type]

AuthResult(sm, data, res) ==
    [sm |-> sm, data |-> data, events |-> EventsOfResult(res, "AuthenticateSM"),
     result |-> IF res \in {"Err", "ErrUnexpectedCall"} THEN "Err" ELSE "Ok"]

AuthenticateSM_update_without_message(sm, data, shared_data) ==
    CASE sm.state = "Initial" ->
           IF sm.auth \in Range(shared_data.available_auth_types)
           THEN AuthResult([sm EXCEPT !.state = "Ongoing"], data, "OkNone")
           ELSE AuthResult(sm, data, "Err")
      [] sm.state = "Ongoing" ->
           AuthResult([sm EXCEPT !.state = "PostAuth"], data,
                      IF sm.auth = "PFP" THEN "OkSome" ELSE "OkNone")
      [] OTHER -> AuthResult(sm, data, "ErrUnexpectedCall")

AuthenticateSM_update_with_message(sm, data, msg) ==
    IF sm.state = "PostAuth"
    THEN AuthResult([sm EXCEPT !.state = "Terminated"], data,
                    IF msg.type = "Authenticate" /\ msg.sub = "Success"
                    THEN "OkNone" ELSE "Err")
    ELSE AuthResult(sm, data, "ErrUnexpectedCall")

(***************************************************************************)
(* Dispatch through Box<dyn ConnectionSM>.                                 *)
(***************************************************************************)
SM_is_terminated(sm) ==
    CASE sm.kind = "Dummy" -> TRUE
      [] OTHER -> sm.state = "Terminated"

SM_waiting_for_packet(sm) ==
    CASE sm.kind = "Handshake" -> sm.state = "Ready"
      [] sm.kind = "Negotiate" -> sm.state = "Ready"
      [] sm.kind = "Authenticate" -> sm.state = "PostAuth"
      [] sm.kind = "Associate" -> sm.state # "Terminated"
      [] sm.kind = "Capabilities" -> sm.state # "Terminated"
      [] sm.kind = "Channels" -> sm.state \in {"WaitListResponse", "WaitOpenResponse"}
      [] OTHER -> FALSE

SM_update_without_message(sm, data, shared_data) ==
    CASE sm.kind = "Handshake" -> HandshakeSM_update_without_message(sm, data)
      [] sm.kind = "Negotiate" -> NegotiateSM_update_without_message(sm, data)
      [] sm.kind = "Authenticate" -> AuthenticateSM_update_without_message(sm, data, shared_data)
      [] sm.kind = "Associate" -> AssociateSM_update_without_message(sm, data)
      [] sm.kind = "Capabilities" -> CapabilitiesSM_update_without_message(sm, data)
      [] sm.kind = "Channels" -> ChannelsSM_update_without_message(sm, data)
      [] OTHER -> DummyConnectionSM_update(sm, data)

SM_update_with_message(sm, data, msg) ==
    CASE sm.kind = "Handshake" -> HandshakeSM_update_with_message(sm, data, msg)
      [] sm.kind = "Negotiate" -> NegotiateSM_update_with_message(sm, data, msg)
      [] sm.kind = "Authenticate" -> AuthenticateSM_update_with_message(sm, data, msg)
      [] sm.kind = "Associate" -> AssociateSM_update_with_message(sm, data, msg)
      [] sm.kind = "Capabilities" -> CapabilitiesSM_update_with_message(sm, data, msg)
      [] sm.kind = "Channels" -> ChannelsSM_update_with_message(sm, data, msg)
      [] OTHER -> DummyConnectionSM_update(sm, data)

(***************************************************************************)
(* The connection coordinator (sm/client_connection/mod.rs).               *)
(***************************************************************************)
ClientConnectionSeqSM_new(available_auth_types, authenticate_sm) ==
    [state |-> "Handshake",
     current_sm |-> HandshakeSM_new,
     authenticate_sm |-> authenticate_sm,
     shared_data |-> [available_auth_types |-> available_auth_types]]

check_result(conn, result) ==
    IF result = "Err" THEN [conn EXCEPT !.state = "Final"] ELSE conn

\* variant: the authenticate phase is skipped
go_to_next_state_skip(conn) ==
    CASE conn.state = "Handshake" ->
           [conn EXCEPT !.state = "Negotiate", !.current_sm = NegotiateSM_new]
      [] conn.state = "Negotiate" ->
           [conn EXCEPT !.state = "Associate", !.current_sm = AssociateSM_new]
      [] conn.state = "Associate" ->
           [conn EXCEPT !.state = "Capabilities", !.current_sm = CapabilitiesSM_new]
      [] conn.state = "Capabilities" ->
           [conn EXCEPT !.state = "Channels", !.current_sm = ChannelsSM_new]
      [] conn.state = "Channels" ->
           [conn EXCEPT !.state = "Final"]
      [] OTHER -> conn

go_to_next_state(conn) ==
    CASE conn.state = "Handshake" ->
           [conn EXCEPT !.state = "Negotiate", !.current_sm = NegotiateSM_new]
      [] conn.state = "Negotiate" ->
           [conn EXCEPT !.state = "Authenticate",
                        !.current_sm = conn.authenticate_sm,
                        !.authenticate_sm = DummyConnectionSM]
      [] conn.state = "Authenticate" ->
           [conn EXCEPT !.state = "Associate", !.current_sm = AssociateSM_new]
      [] conn.state = "Associate" ->
           [conn EXCEPT !.state = "Capabilities", !.current_sm = CapabilitiesSM_new]
      [] conn.state = "Capabilities" ->
           [conn EXCEPT !.state = "Channels", !.current_sm = ChannelsSM_new]
      [] conn.state = "Channels" ->
           [conn EXCEPT !.state = "Final"]
      [] OTHER -> conn

ClientConnectionSeqSM_is_terminated(conn) == conn.state = "Final"

ClientConnectionSeqSM_waiting_for_packet(conn) ==
    SM_waiting_for_packet(conn.current_sm)

\* the part of both updates after the sub-machine ran
after_update(conn, r) ==
    LET conn1 == [conn EXCEPT !.current_sm = r.sm]
    IN [conn |-> IF SM_is_terminated(r.sm)
                 THEN go_to_next_state(conn1)
                 ELSE check_result(conn1, r.result),
        data |-> r.data,
        events |-> r.events]

ClientConnectionSeqSM_update_without_message(conn, data) ==
    after_update(conn, SM_update_without_message(conn.current_sm, data, conn.shared_data))

ClientConnectionSeqSM_update_with_message(conn, data, msg) ==
    after_update(conn, SM_update_with_message(conn.current_sm, data, msg))

(***************************************************************************)
(* Virtual-channel messages (message/mod.rs, NowVirtualChannel).           *)
(***************************************************************************)
\* `accept` is the host's answer (accept_resume, transfer_ownership_to_peer) to
\* the two requests that ask for one
VirtMsg(chan, sub, failure, accept) ==
    [chan |-> chan, sub |-> sub, failure |-> failure, accept |-> accept]

ClipboardRspSubs == {"CapabilitiesRsp", "ControlRsp", "ResumeRsp", "SuspendRsp",
                     "FormatListRsp"}
ClipboardAskSubs == {"ResumeReq", "FormatListReq"}
ClipboardOtherSubs == {"CapabilitiesReq", "FormatDataReq", "FormatDataRsp"}

VirtMsgs ==
    {VirtMsg("Clipboard", s, f, FALSE) : s \in ClipboardRspSubs, f \in BOOLEAN}
    \cup {VirtMsg("Clipboard", s, FALSE, a) : s \in ClipboardAskSubs, a \in BOOLEAN}
    \cup {VirtMsg("Clipboard", s, FALSE, FALSE) : s \in ClipboardOtherSubs}
    \cup {VirtMsg("Chat", s, FALSE, FALSE) : s \in {"Sync", "Text", "Read"}}
    \cup {VirtMsg("Custom", "", FALSE, FALSE)}

\* NowVirtualChannel::get_name
NowVirtualChannel_get_name(chan_msg) == chan_msg.chan

\* TryFrom<String> for NowString (message/common/now_string.rs): a string is
\* its length in bytes
StringOk(len) == [ok |-> TRUE, len |-> len]

StringErr == [ok |-> FALSE, len |-> 0]

\* variant: a string of exactly SIZE bytes is refused as well
NowString_try_from_strict(size, len) ==
    IF len >= size THEN StringErr ELSE StringOk(len)

\* TryFrom<String> for NowString
NowString_try_from(size, len) ==
    IF len > size THEN StringErr ELSE StringOk(len)

(***************************************************************************)
(* Channel machines (sm/client_channels).  A result carries the machine,   *)
(* the events it pushed and the responses it pushed to ChannelResponses.   *)
(* The host callbacks are the default ones, except for the two decisions   *)
(* accept_resume and transfer_ownership_to_peer, carried by the message.   *)
(***************************************************************************)
ChanResult(sm, evs, rsps) ==
    [sm |-> sm, events |-> evs, to_send |-> rsps, callbacks |-> <<>>, ids |-> <<>>]

\* the result of an arm that also invokes the host callbacks `names`, in order
Invoking(r, names) == [r EXCEPT !.callbacks = @ \o names]

\* ChatData::new: the lengths of "Anonymous" and "None"; the builder's
\* friendly_name and status_text take any string
ChatData_new == [friendly_name |-> 9, status_text |-> 4]

ChatChannelSM_new(config) == [kind |-> "Chat", state |-> "Initial", data |-> config]

ClipboardChannelSM_new ==
    [kind |-> "Clipboard", state |-> "Initial",
     is_owner |-> FALSE, auto_fetch |-> TRUE, sequence_id |-> 0]

VirtualChannelSM_get_channel_name(sm) == sm.kind

VirtualChannelSM_waiting_for_packet(sm) ==
    IF sm.kind = "Chat"
    THEN sm.state \in {"Active", "Sync"}
    ELSE sm.state \in {"Capabilities", "Disabled", "Enabled"}

\* in Initial the two strings are converted to NowString65535 first; a failed
\* conversion pushes the error and returns, the state being left as it is
ChatChannelSM_update_without_chan_msg(sm) ==
    IF sm.state = "Initial"
    THEN IF ~NowString_try_from(65535, sm.data.friendly_name).ok
            \/ ~NowString_try_from(65535, sm.data.status_text).ok
         THEN ChanResult(sm, <<Error("provided string greater than NowString size limit")>>, <<>>)
         ELSE ChanResult([sm EXCEPT !.state = "Sync"], <<Transition("ChatState", "Sync")>>, <<"ChatSync">>)
    ELSE ChanResult(sm, <<Error("unexpected call to update_without_chan_msg")>>, <<>>)

\* variant: a text message is delivered to the host during the synchronisation
ChatChannelSM_update_with_chan_msg_early_text(sm, chan_msg) ==
    IF chan_msg.chan = "Chat"
    THEN CASE sm.state = "Sync" ->
                IF chan_msg.sub = "Sync"
                THEN Invoking(ChanResult([sm EXCEPT !.state = "Active"], <<>>, <<>>),
                              <<"on_synced">>)
                ELSE IF chan_msg.sub = "Text"
                     THEN Invoking(ChanResult(sm, <<>>, <<>>), <<"on_message">>)
                     ELSE ChanResult(sm, <<Error("received an unexpected message")>>, <<>>)
           [] sm.state = "Active" ->
                IF chan_msg.sub = "Text"
                THEN Invoking(ChanResult(sm, <<>>, <<>>), <<"on_message">>)
                ELSE ChanResult(sm, <<Error("received an unexpected message")>>, <<>>)
           [] OTHER ->
                ChanResult(sm, <<Error("unexpected call to update_with_chan_msg")>>, <<>>)
    ELSE ChanResult(sm, <<Error("received an unexpected message")>>, <<>>)

ChatChannelSM_update_with_chan_msg(sm, chan_msg) ==
    IF chan_msg.chan = "Chat"
    THEN CASE sm.state = "Sync" ->
                IF chan_msg.sub = "Sync"
                THEN Invoking(ChanResult([sm EXCEPT !.state = "Active"], <<>>, <<>>),
                              <<"on_synced">>)
                ELSE ChanResult(sm, <<Error("received an unexpected message")>>, <<>>)
           [] sm.state = "Active" ->
                IF chan_msg.sub = "Text"
                THEN Invoking(ChanResult(sm, <<>>, <<>>), <<"on_message">>)
                ELSE ChanResult(sm, <<Error("received an unexpected message")>>, <<>>)
           [] OTHER ->
                ChanResult(sm, <<Error("unexpected call to update_with_chan_msg")>>, <<>>)
    ELSE ChanResult(sm, <<Error("received an unexpected message")>>, <<>>)

ClipboardChannelSM_update_without_chan_msg(sm) ==
    IF sm.state = "Initial"
    THEN ChanResult([sm EXCEPT !.state = "Capabilities"],
                    <<Transition("ClipboardState", "Capabilities")>>, <<"CapabilitiesReq">>)
    ELSE ChanResult(sm, <<Error("unexpected call to update_without_chan_msg")>>, <<>>)

\* ClipboardData::set_auto_fetch, which the host calls on the data it shares
\* with the machine
set_auto_fetch(sm, auto_fetch) == [sm EXCEPT !.auto_fetch = auto_fetch]

\* ClipboardData::next_sequence_id
next_sequence_id(sm) == [sm EXCEPT !.sequence_id = sm.sequence_id + 1]

\* variant: the value the field had before the addition is returned
next_sequence_id_returned_old(sm) == sm.sequence_id

\* the value next_sequence_id returns: the field after the addition
next_sequence_id_returned(sm) == next_sequence_id(sm).sequence_id

\* a FormatListRsp built with the id next_sequence_id returns
FormatListRsp(r, sm) == [r EXCEPT !.ids = Append(@, next_sequence_id_returned(sm))]

Clipboard_unexpected_message(sm) ==
    ChanResult(sm, <<Warn("received an unexpected message")>>, <<>>)

Clipboard_failed(sm, what) == ChanResult(sm, <<Error(what)>>, <<>>)

\* variant: the ownership goes to the peer even when the transfer is refused
on_format_list_req_always_transfers(sm, chan_msg) ==
    IF chan_msg.accept
    THEN ChanResult(next_sequence_id([sm EXCEPT !.is_owner = FALSE]),
                    <<>>, <<"FormatListRsp">>)
    ELSE ChanResult(next_sequence_id([sm EXCEPT !.is_owner = FALSE]),
                    <<>>, <<"FormatListRspFailure">>)

\* the FormatListReq arm of the Enabled state; chan_msg.accept is the answer
\* of the callback transfer_ownership_to_peer
on_format_list_req(sm, chan_msg) ==
    IF chan_msg.accept
    THEN Invoking(FormatListRsp(ChanResult(next_sequence_id([sm EXCEPT !.is_owner = FALSE]),
                                           <<>>, <<"FormatListRsp">>), sm),
                  <<"transfer_ownership_to_peer", "on_auto_fetch">>)
    ELSE Invoking(FormatListRsp(ChanResult(next_sequence_id(sm), <<>>,
                                           <<"FormatListRspFailure">>), sm),
                  <<"transfer_ownership_to_peer">>)

\* variant: a format data request is served by the owner alone
ClipboardChannelSM_update_with_chan_msg_owner_only(sm, chan_msg) ==
    IF chan_msg.chan # "Clipboard"
    THEN Clipboard_unexpected_message(sm)
    ELSE
    CASE sm.state = "Capabilities" ->
           IF chan_msg.sub = "CapabilitiesRsp"
           THEN IF chan_msg.failure
                THEN Clipboard_failed(sm, "capabilities exchange failed")
                ELSE ChanResult([sm EXCEPT !.state = "Disabled"],
                                <<Transition("ClipboardState", "Disabled")>>, <<"ControlReq">>)
           ELSE Clipboard_unexpected_message(sm)
      [] sm.state = "Disabled" ->
           CASE chan_msg.sub = "ControlRsp" ->
                  IF chan_msg.failure
                  THEN Clipboard_failed(sm, "control setting failed")
                  ELSE Invoking(ChanResult([sm EXCEPT !.state = "Enabled"],
                                           <<Transition("ClipboardState", "Enabled")>>, <<>>),
                                <<"on_control_rsp">>)
             [] chan_msg.sub = "ResumeReq" ->
                  IF chan_msg.accept
                  THEN Invoking(ChanResult([sm EXCEPT !.state = "Enabled"],
                                           <<Transition("ClipboardState", "Enabled")>>,
                                           <<"ResumeRsp">>),
                                <<"accept_resume">>)
                  ELSE Invoking(ChanResult(sm, <<>>, <<"ResumeRspFailure">>),
                                <<"accept_resume">>)
             [] chan_msg.sub = "ResumeRsp" ->
                  IF chan_msg.failure
                  THEN Clipboard_failed(sm, "resume failed")
                  ELSE Invoking(ChanResult([sm EXCEPT !.state = "Enabled"],
                                           <<Transition("ClipboardState", "Enabled")>>, <<>>),
                                <<"on_resume_rsp">>)
             [] OTHER -> Clipboard_unexpected_message(sm)
      [] sm.state = "Enabled" ->
           CASE chan_msg.sub = "SuspendRsp" ->
                  IF chan_msg.failure
                  THEN Clipboard_failed(sm, "suspend failed")
                  ELSE Invoking(ChanResult([sm EXCEPT !.state = "Disabled"],
                                           <<Transition("ClipboardState", "Disabled")>>, <<>>),
                                <<"on_suspend_rsp">>)
             [] chan_msg.sub = "FormatListReq" -> on_format_list_req(sm, chan_msg)
             [] chan_msg.sub = "FormatListRsp" ->
                  IF chan_msg.failure
                  THEN Clipboard_failed(sm, "couldn't take ownership")
                  ELSE Invoking(ChanResult([sm EXCEPT !.is_owner = TRUE], <<>>, <<>>),
                                <<"on_format_list_rsp">>)
             [] chan_msg.sub = "FormatDataReq" ->
                  IF sm.is_owner
                  THEN Invoking(ChanResult(sm, <<>>, <<>>), <<"on_format_data_req">>)
                  ELSE ChanResult(sm, <<Warn("format data request while not owner")>>, <<>>)
             [] chan_msg.sub = "FormatDataRsp" ->
                  IF sm.is_owner
                  THEN ChanResult(sm, <<Warn("format data response while owner")>>, <<>>)
                  ELSE Invoking(ChanResult(sm, <<>>, <<>>), <<"on_format_data_rsp">>)
             [] OTHER -> Clipboard_unexpected_message(sm)
      [] OTHER ->
           ChanResult(sm, <<Error("unexpected call to update_with_chan_msg")>>, <<>>)

ClipboardChannelSM_update_with_chan_msg(sm, chan_msg) ==
    IF chan_msg.chan # "Clipboard"
    THEN Clipboard_unexpected_message(sm)
    ELSE
    CASE sm.state = "Capabilities" ->
           IF chan_msg.sub = "CapabilitiesRsp"
           THEN IF chan_msg.failure
                THEN Clipboard_failed(sm, "capabilities exchange failed")
                ELSE ChanResult([sm EXCEPT !.state = "Disabled"],
                                <<Transition("ClipboardState", "Disabled")>>, <<"ControlReq">>)
           ELSE Clipboard_unexpected_message(sm)
      [] sm.state = "Disabled" ->
           CASE chan_msg.sub = "ControlRsp" ->
                  IF chan_msg.failure
                  THEN Clipboard_failed(sm, "control setting failed")
                  ELSE Invoking(ChanResult([sm EXCEPT !.state = "Enabled"],
                                           <<Transition("ClipboardState", "Enabled")>>, <<>>),
                                <<"on_control_rsp">>)
             [] chan_msg.sub = "ResumeReq" ->
                  IF chan_msg.accept
                  THEN Invoking(ChanResult([sm EXCEPT !.state = "Enabled"],
                                           <<Transition("ClipboardState", "Enabled")>>,
                                           <<"ResumeRsp">>),
                                <<"accept_resume">>)
                  ELSE Invoking(ChanResult(sm, <<>>, <<"ResumeRspFailure">>),
                                <<"accept_resume">>)
             [] chan_msg.sub = "ResumeRsp" ->
                  IF chan_msg.failure
                  THEN Clipboard_failed(sm, "resume failed")
                  ELSE Invoking(ChanResult([sm EXCEPT !.state = "Enabled"],
                                           <<Transition("ClipboardState", "Enabled")>>, <<>>),
                                <<"on_resume_rsp">>)
             [] OTHER -> Clipboard_unexpected_message(sm)
      [] sm.state = "Enabled" ->
           CASE chan_msg.sub = "SuspendRsp" ->
                  IF chan_msg.failure
                  THEN Clipboard_failed(sm, "suspend failed")
                  ELSE Invoking(ChanResult([sm EXCEPT !.state = "Disabled"],
                                           <<Transition("ClipboardState", "Disabled")>>, <<>>),
                                <<"on_suspend_rsp">>)
             [] chan_msg.sub = "FormatListReq" -> on_format_list_req(sm, chan_msg)
             [] chan_msg.sub = "FormatListRsp" ->
                  IF chan_msg.failure
                  THEN Clipboard_failed(sm, "couldn't take ownership")
                  ELSE Invoking(ChanResult([sm EXCEPT !.is_owner = TRUE], <<>>, <<>>),
                                <<"on_format_list_rsp">>)
             [] chan_msg.sub = "FormatDataReq" ->
                  IF sm.is_owner \/ sm.auto_fetch
                  THEN Invoking(ChanResult(sm, <<>>, <<>>), <<"on_format_data_req">>)
                  ELSE ChanResult(sm, <<Warn("format data request while not owner")>>, <<>>)
             [] chan_msg.sub = "FormatDataRsp" ->
                  IF sm.is_owner
                  THEN ChanResult(sm, <<Warn("format data response while owner")>>, <<>>)
                  ELSE Invoking(ChanResult(sm, <<>>, <<>>), <<"on_format_data_rsp">>)
             [] OTHER -> Clipboard_unexpected_message(sm)
      [] OTHER ->
           ChanResult(sm, <<Error("unexpected call to update_with_chan_msg")>>, <<>>)

VirtualChannelSM_update_without_chan_msg(sm) ==
    IF sm.kind = "Chat"
    THEN ChatChannelSM_update_without_chan_msg(sm)
    ELSE ClipboardChannelSM_update_without_chan_msg(sm)

VirtualChannelSM_update_with_chan_msg(sm, chan_msg) ==
    IF sm.kind = "Chat"
    THEN ChatChannelSM_update_with_chan_msg(sm, chan_msg)
    ELSE ClipboardChannelSM_update_with_chan_msg(sm, chan_msg)

(***************************************************************************)
(* Channels manager (channels_manager.rs).  state_machines is a BTreeMap   *)
(* keyed by ChannelName; `inserted` remembers the order of the add_sm      *)
(* calls.                                                                  *)
(***************************************************************************)
\* derive(Ord) on ChannelName: Unknown < Clipboard < FileTransfer < Exec < Chat < Tunnel
ChannelNameOrd(name) ==
    CASE name = "Clipboard" -> 1
      [] name = "Chat" -> 4
      [] OTHER -> 0

VirtualChannelSM_new(name) ==
    IF name = "Chat" THEN ChatChannelSM_new(ChatData_new) ELSE ClipboardChannelSM_new

\* ChannelsManager::default followed by add_sm for each name of `names`
ChannelsManager_with(names) ==
    [inserted |-> names,
     state_machines |-> [n \in Range(names) |-> VirtualChannelSM_new(n)]]

MgrResult(cm, evs, rsps, updated) ==
    [cm |-> cm, events |-> evs, to_send |-> rsps, updated |-> updated]

\* the responses of one machine, tagged with the current channel name
Tagged(name, rsps) == [i \in 1..Len(rsps) |-> [name |-> name, rsp |-> rsps[i]]]

\* variant: the message goes to the first registered machine, whatever its name
ChannelsManager_update_with_virt_msg_first(cm, chan_msg) ==
    IF DOMAIN cm.state_machines # {}
    THEN LET name == CHOOSE n \in DOMAIN cm.state_machines :
                        \A m \in DOMAIN cm.state_machines :
                            ChannelNameOrd(n) <= ChannelNameOrd(m)
             sm == cm.state_machines[name]
             r == VirtualChannelSM_update_with_chan_msg(sm, chan_msg)
         IN MgrResult([cm EXCEPT !.state_machines[name] = r.sm], r.events,
                      Tagged(VirtualChannelSM_get_channel_name(sm), r.to_send),
                      {name})
    ELSE MgrResult(cm, <<Warn("state machine for channel not found")>>, <<>>, {})

ChannelsManager_update_with_virt_msg(cm, chan_msg) ==
    LET name == NowVirtualChannel_get_name(chan_msg)
    IN IF name \in DOMAIN cm.state_machines
       THEN LET sm == cm.state_machines[name]
                r == VirtualChannelSM_update_with_chan_msg(sm, chan_msg)
            IN MgrResult([cm EXCEPT !.state_machines[name] = r.sm], r.events,
                         Tagged(VirtualChannelSM_get_channel_name(sm), r.to_send),
                         {name})
       ELSE MgrResult(cm, <<Warn("state machine for channel not found")>>, <<>>, {})

\* the first machine, in key order, that is not waiting for a packet
FirstReady(cm) ==
    LET ready == {n \in DOMAIN cm.state_machines :
                    ~VirtualChannelSM_waiting_for_packet(cm.state_machines[n])}
    IN {n \in ready : \A m \in ready : ChannelNameOrd(n) <= ChannelNameOrd(m)}

ChannelsManager_update_without_virt_msg(cm) ==
    IF FirstReady(cm) # {}
    THEN LET name == CHOOSE n \in FirstReady(cm) : TRUE
             sm == cm.state_machines[name]
             r == VirtualChannelSM_update_without_chan_msg(sm)
         IN MgrResult([cm EXCEPT !.state_machines[name] = r.sm], r.events,
                      Tagged(VirtualChannelSM_get_channel_name(sm), r.to_send),
                      {name})
    ELSE MgrResult(cm, <<Warn("no channel state machine is ready")>>, <<>>, {})

\* variant: one waiting machine is enough
ChannelsManager_waiting_for_packet_any(cm) ==
    \E n \in DOMAIN cm.state_machines :
        VirtualChannelSM_waiting_for_packet(cm.state_machines[n])

ChannelsManager_waiting_for_packet(cm) ==
    \A n \in DOMAIN cm.state_machines :
        VirtualChannelSM_waiting_for_packet(cm.state_machines[n])

(***************************************************************************)
(* Virtual channels context (message/mod.rs, VirtChannelsCtx).             *)
(***************************************************************************)
VirtChannelsCtx_new == [i \in {} |-> "Custom"]

VirtChannelsCtx_insert(ctx, id, name) ==
    [i \in DOMAIN ctx \cup {id} |-> IF i = id THEN name ELSE ctx[i]]

\* BTreeMap iteration is by ascending id: the first id holding the name
get_id_by_channel(ctx, name) ==
    LET ids == {i \in DOMAIN ctx : ctx[i] = name}
    IN IF ids = {} THEN -1 ELSE CHOOSE i \in ids : \A j \in ids : i <= j

get_channel_by_id(ctx, id) == IF id \in DOMAIN ctx THEN ctx[id] ELSE "-"

(***************************************************************************)
(* Headers (header.rs).  Bytes are numbered from 1 here, from 0 in the     *)
(* source.                                                                 *)
(***************************************************************************)
HEADER_VIRTUAL_CHANNEL_FLAG == 1

NowShortHeader_SIZE == 4

NowLongHeader_SIZE == 6

\* `flags & HEADER_VIRTUAL_CHANNEL_FLAG != 0`
HasVirtualChannelFlag(flags) == (flags \div HEADER_VIRTUAL_CHANNEL_FLAG) % 2 = 1

\* NowShortHeader::decode_from : u16 body_len, u8 body type, u8 flags
NowShortHeader_decode(b) ==
    [short |-> TRUE, len |-> NowShortHeader_SIZE,
     body_len |-> b[1] + 256 * b[2],
     virtual |-> HasVirtualChannelFlag(b[4]),
     raw |-> b[3]]

\* NowLongHeader::decode_from : u32 body_len, u8 flags, u8 body type
NowLongHeader_decode(b) ==
    [short |-> FALSE, len |-> NowLongHeader_SIZE,
     body_len |-> b[1] + 256 * b[2] + 65536 * b[3] + 16777216 * b[4],
     virtual |-> HasVirtualChannelFlag(b[5]),
     raw |-> b[6]]

\* NowHeader::read_from on six available bytes: `is_short = buffer[3] > 7`.
\* MessageType has a fallback variant, so the decoding cannot fail.
NowHeader_decode(b) ==
    IF b[4] > 7 THEN NowShortHeader_decode(b) ELSE NowLongHeader_decode(b)

(***************************************************************************)
(* Header values (header.rs, message/mod.rs).  A MessageType is the named  *)
(* variant of its value or the fallback variant Other(value); a BodyType   *)
(* is Message(MessageType) or VirtualChannel(id); a header is the variant  *)
(* (short or long) and the three fields of the structure.  Lengths stay    *)
(* below 2^31 here.                                                        *)
(***************************************************************************)
\* the #[value] attributes of MessageType
MessageTypeValues == {0, 1, 2, 3, 4, 5, 6, 7, 8, 65, 66, 67, 68, 69, 70, 71, 72, 73, 80}

\* MessageType::Other(v), whatever v
MessageType_Other(v) == [variant |-> "Other", value |-> v]

\* From<u8> for MessageType (derive Decode): the named variant, else the fallback
MessageType_from(v) ==
    IF v \in MessageTypeValues THEN [variant |-> "Named", value |-> v]
    ELSE MessageType_Other(v)

\* From<MessageType> for u8 (derive Encode): the value, or the fallback's content
u8_from_MessageType(mt) == mt.value

BodyType_Message(mt) == [kind |-> "Message", variant |-> mt.variant, value |-> mt.value]

BodyType_VirtualChannel(id) == [kind |-> "VirtualChannel", variant |-> "-", value |-> id]

\* Encode for BodyType: one byte, the message type's or the channel id
BodyType_encode(bt) ==
    IF bt.kind = "Message"
    THEN u8_from_MessageType([variant |-> bt.variant, value |-> bt.value])
    ELSE bt.value

\* the body type the decoders build from the flags and the raw type byte
BodyType_decode(flags, raw) ==
    IF HasVirtualChannelFlag(flags) THEN BodyType_VirtualChannel(raw)
    ELSE BodyType_Message(MessageType_from(raw))

u16_max_value == 65535

u16_encode(n) == <<n % 256, (n \div 256) % 256>>

u32_encode(n) == <<n % 256, (n \div 256) % 256, (n \div 65536) % 256, (n \div 16777216) % 256>>

NowShortHeader_new(body_type, body_len) ==
    [short |-> TRUE, body_len |-> body_len, body_type |-> body_type,
     flags |-> 128 + (IF body_type.kind = "VirtualChannel"
                      THEN HEADER_VIRTUAL_CHANNEL_FLAG ELSE 0)]

\* `body_len: body_size & 0b0111_1111_1111_1111u32`
NowLongHeader_new(body_type, body_size) ==
    [short |-> FALSE, body_len |-> body_size % 32768, body_type |-> body_type,
     flags |-> IF body_type.kind = "VirtualChannel"
               THEN HEADER_VIRTUAL_CHANNEL_FLAG ELSE 0]

\* variant: a body of u16::max_value() bytes already takes a long header
NowHeader_new_long_at_max(body_type, body_len) ==
    IF body_len >= u16_max_value
    THEN NowLongHeader_new(body_type, body_len)
    ELSE NowShortHeader_new(body_type, body_len % 65536)

\* NowHeader::new; `body_len as u16` is the % 65536
NowHeader_new(body_type, body_len) ==
    IF body_len > u16_max_value
    THEN NowLongHeader_new(body_type, body_len)
    ELSE NowShortHeader_new(body_type, body_len % 65536)

NowHeader_new_with_msg_type(msg_type, body_len) ==
    NowHeader_new(BodyType_Message(msg_type), body_len)

NowHeader_new_with_virt_channel(channel_id, body_len) ==
    NowHeader_new(BodyType_VirtualChannel(channel_id), body_len)

\* AbstractNowHeader for NowHeader
NowHeader_is_short(h) == h.short

NowHeader_body_len(h) == h.body_len

NowHeader_body_type(h) == h.body_type

\* the short header's flags() unsets the short bit
NowHeader_flags(h) == IF h.short THEN h.flags % 128 ELSE h.flags

\* variant: the flags are written as flags() returns them, without the short bit
NowHeader_encode_without_short_bit(h) ==
    IF h.short
    THEN u16_encode(h.body_len) \o <<BodyType_encode(h.body_type), NowHeader_flags(h)>>
    ELSE u32_encode(h.body_len) \o <<NowHeader_flags(h), BodyType_encode(h.body_type)>>

\* derive(Encode): the fields in the order of the structure
NowHeader_encode(h) ==
    IF h.short
    THEN u16_encode(h.body_len) \o <<BodyType_encode(h.body_type), h.flags>>
    ELSE u32_encode(h.body_len) \o <<h.flags, BodyType_encode(h.body_type)>>

NowShortHeader_decode_from(b) ==
    [short |-> TRUE, body_len |-> b[1] + 256 * b[2],
     body_type |-> BodyType_decode(b[4], b[3]), flags |-> b[4]]

NowLongHeader_decode_from(b) ==
    [short |-> FALSE, body_len |-> b[1] + 256 * b[2] + 65536 * b[3] + 16777216 * b[4],
     body_type |-> BodyType_decode(b[5], b[6]), flags |-> b[5]]

HeaderOk(h) == [ok |-> TRUE, header |-> h]

HeaderErr == [ok |-> FALSE, header |-> NowShortHeader_new(BodyType_VirtualChannel(0), 0)]

\* NowHeader::read_from on the bytes b: four bytes are read, `buffer[3] > 7`
\* selects the short header, otherwise two more bytes are read
NowHeader_read_from(b) ==
    IF Len(b) < 4 THEN HeaderErr
    ELSE IF b[4] > 7 THEN HeaderOk(NowShortHeader_decode_from(b))
    ELSE IF Len(b) < 6 THEN HeaderErr
    ELSE HeaderOk(NowLongHeader_decode_from(b))

\* NowPacket::from_message; m is the message's type and its encoded length
NowPacket_from_message(m) ==
    [header |-> NowHeader_new_with_msg_type(m.type, m.encoded_len), body |-> "Message"]

\* NowPacket::from_virt_channel
NowPacket_from_virt_channel(v, channel_id) ==
    [header |-> NowHeader_new_with_virt_channel(channel_id, v.encoded_len),
     body |-> "VirtualChannel"]

(***************************************************************************)
(* NowString (message/common/now_string.rs).  A string is its length in    *)
(* bytes; the bytes to decode are the raw size prefix, the number of bytes *)
(* that follow it and whether the first `size` of them are valid UTF-8.    *)
(***************************************************************************)
\* the SIZE of NowString16 .. NowString65535
NowStringSizes == {16, 32, 64, 128, 256, 65535}

\* the width of the SizeType: u16 for NowString65535, u8 for the others
SizeType_len(size) == IF size = 65535 THEN 2 ELSE 1

\* SizeType::decode_from followed by into()
SizeType_decode(prefix) ==
    IF Len(prefix) = 1 THEN prefix[1] ELSE prefix[1] + 256 * prefix[2]

\* Decode for NowString: the size, the bytes, the null terminator, the UTF-8 check
NowString_decode_from(size, prefix, avail, utf8) ==
    LET expected_size == SizeType_decode(prefix)
    IN IF expected_size > size THEN StringErr
       ELSE IF avail < expected_size THEN StringErr
       ELSE IF avail < expected_size + 1 THEN StringErr
       ELSE IF ~utf8 THEN StringErr
       ELSE StringOk(expected_size)

\* SizeType::try_from(usize): u8 or u16, None above the largest value
SizeType_try_from(size, n) ==
    IF SizeType_len(size) = 1
    THEN IF n <= 255 THEN [ok |-> TRUE, bytes |-> <<n>>]
                     ELSE [ok |-> FALSE, bytes |-> <<>>]
    ELSE IF n <= 65535 THEN [ok |-> TRUE, bytes |-> u16_encode(n)]
                       ELSE [ok |-> FALSE, bytes |-> <<>>]

\* Encode for NowString: SizeType::try_from(bytes.len()).unwrap(), the length,
\* the bytes and a NUL; what is written is the prefix, the number of bytes of
\* the string and the number of NUL bytes
NowString_encode_into(size, s) ==
    LET len == SizeType_try_from(size, s.len)
    IN IF ~len.ok THEN [kind |-> "panic", prefix |-> <<>>, bytes |-> 0, nul |-> 0]
       ELSE [kind |-> "Ok", prefix |-> len.bytes, bytes |-> s.len, nul |-> 1]

(***************************************************************************)
(* Packets (packet.rs, message/mod.rs).                                    *)
(***************************************************************************)
MessageType_Terminate == 8

\* NowTerminateMsg : u32 flags and a u32 status
NowTerminateMsg_SIZE == 8

\* NowMessage::decode_from for the message types of the modelled streams: a
\* type without a message structure is a Custom message holding the rest of the
\* body, a Terminate message needs its eight bytes
NowMessage_decode_from(msg_type, body) ==
    IF msg_type = MessageType_Terminate
    THEN IF Len(body) >= NowTerminateMsg_SIZE THEN "Ok" ELSE "Err"
    ELSE "Ok"

\* NowPacket::decode_from; the channels of the modelled contexts are custom
\* ones, decoded as the rest of the body
NowPacket_decode_from(header, body, ctx) ==
    IF header.virtual
    THEN IF get_channel_by_id(ctx, header.raw) = "-" THEN "Err" ELSE "Ok"
    ELSE NowMessage_decode_from(header.raw, body)

(***************************************************************************)
(* NowPacketAccumulator (packet.rs).                                       *)
(***************************************************************************)
NowPacketAccumulator_new == [buffer |-> <<>>, cursor |-> 0]

None == [some |-> FALSE, kind |-> "-", bytes |-> <<>>]

Some(kind, bytes) == [some |-> TRUE, kind |-> kind, bytes |-> bytes]

accumulate(a, bytes) == [a EXCEPT !.buffer = @ \o bytes]

\* variant: the whole buffer is dropped
purge_old_packets_clear(a) == [buffer |-> <<>>, cursor |-> 0]

\* variant: the drained cursor is kept
purge_old_packets_keep_cursor(a) ==
    [buffer |-> SubSeq(a.buffer, a.cursor + 1, Len(a.buffer)), cursor |-> a.cursor]

purge_old_packets(a) ==
    [buffer |-> SubSeq(a.buffer, a.cursor + 1, Len(a.buffer)), cursor |-> 0]

\* variant: a packet whose body fails to decode is not stepped over
next_packet_stuck_on_err(a, ctx) ==
    IF Len(a.buffer) < a.cursor + NowLongHeader_SIZE
    THEN [acc |-> a, result |-> None]
    ELSE LET header == NowHeader_decode(SubSeq(a.buffer, a.cursor + 1,
                                               a.cursor + NowLongHeader_SIZE))
             packet_len == header.body_len + header.len
         IN IF Len(a.buffer) >= a.cursor + packet_len
            THEN LET packet == NowPacket_decode_from(header,
                                   SubSeq(a.buffer, a.cursor + header.len + 1,
                                          a.cursor + packet_len),
                                   ctx)
                 IN [acc |-> IF packet = "Err" THEN a
                             ELSE [a EXCEPT !.cursor = @ + packet_len],
                     result |-> Some(packet, SubSeq(a.buffer, a.cursor + 1,
                                                    a.cursor + packet_len))]
            ELSE [acc |-> a, result |-> None]

next_packet(a, ctx) ==
    IF Len(a.buffer) < a.cursor + NowLongHeader_SIZE
    THEN [acc |-> a, result |-> None]
    ELSE LET header == NowHeader_decode(SubSeq(a.buffer, a.cursor + 1,
                                               a.cursor + NowLongHeader_SIZE))
             packet_len == header.body_len + header.len
         IN IF Len(a.buffer) >= a.cursor + packet_len
            THEN LET packet == NowPacket_decode_from(header,
                                   SubSeq(a.buffer, a.cursor + header.len + 1,
                                          a.cursor + packet_len),
                                   ctx)
                 IN [acc |-> [a EXCEPT !.cursor = @ + packet_len],
                     result |-> Some(packet, SubSeq(a.buffer, a.cursor + 1,
                                                    a.cursor + packet_len))]
            ELSE [acc |-> a, result |-> None]

(***************************************************************************)
(* Sharee (sharee.rs).  A Sharee value is the record of its fields; an     *)
(* update yields the new Sharee, the returned events and, for the record,  *)
(* the channel machines the manager updated and the responses they pushed. *)
(***************************************************************************)
ShareeOf(st, conn, cm, data, ctx) ==
    [state |-> st, connection_seq |-> conn, channels_manager |-> cm,
     sm_data |-> data, channels_ctx |-> ctx]

\* SMData::new
SMData_new(supported_auths, channel_defs) ==
    [supported_auths |-> supported_auths, channel_defs |-> channel_defs]

\* ShareeBuilder::build
ShareeBuilder_build(conn, supported_auths, channels_to_open, cm) ==
    ShareeOf("Connection", conn, cm,
             SMData_new(supported_auths,
                        [i \in 1..Len(channels_to_open) |->
                            NowChannelDef_new(channels_to_open[i])]),
             VirtChannelsCtx_new)

Upd(sh, evs, updated, rsps) ==
    [sh |-> sh, events |-> evs, updated |-> updated, to_send |-> rsps]

h_transition_state(u, st) ==
    [u EXCEPT !.sh.state = st, !.events = Append(@, Transition("ShareeState", st))]

\* variant: only the last event is looked at
h_check_for_fatal_last(u) ==
    IF u.events # <<>> /\ u.events[Len(u.events)].kind = "Fatal"
    THEN h_transition_state(u, "Final")
    ELSE u

h_check_for_fatal(u) ==
    IF HasFatal(u.events) THEN h_transition_state(u, "Final") ELSE u

\* variant: a value above 255 becomes 255
AsU8_saturating(n) == IF n > 255 THEN 255 ELSE n

\* `flags.value as u8`
AsU8(n) == n % 256

RECURSIVE InsertDefs(_, _)
InsertDefs(ctx, defs) ==
    IF defs = <<>> THEN ctx
    ELSE InsertDefs(VirtChannelsCtx_insert(ctx, AsU8(Head(defs).flags), Head(defs).name),
                    Tail(defs))

h_go_to_active_state(u) ==
    LET u1 == h_transition_state(u, "Active")
    IN [u1 EXCEPT !.sh.channels_ctx = InsertDefs(@, u1.sh.sm_data.channel_defs)]

\* variant: the responses are mapped last-pushed first
RECURSIVE MapResponses_reversed(_, _)
MapResponses_reversed(ctx, rsps) ==
    IF rsps = <<>> THEN <<>>
    ELSE LET id == get_id_by_channel(ctx, Head(rsps).name)
         IN MapResponses_reversed(ctx, Tail(rsps))
            \o <<IF id # -1
                 THEN PacketToSend("VirtualChannel", <<id>>)
                 ELSE Warn("channel id not found in channels context")>>

RECURSIVE MapResponses(_, _)
MapResponses(ctx, rsps) ==
    IF rsps = <<>> THEN <<>>
    ELSE LET id == get_id_by_channel(ctx, Head(rsps).name)
         IN <<IF id # -1
              THEN PacketToSend("VirtualChannel", <<id>>)
              ELSE Warn("channel id not found in channels context")>>
            \o MapResponses(ctx, Tail(rsps))

h_map_channels_manager_result(u, rsps) ==
    [u EXCEPT !.events = @ \o MapResponses(u.sh.channels_ctx, rsps)]

\* the Connection arm of both updates, after the coordinator ran
after_connection_update(sh, c) ==
    LET u0 == Upd([sh EXCEPT !.connection_seq = c.conn, !.sm_data = c.data],
                  c.events, {}, <<>>)
        u1 == IF ClientConnectionSeqSM_is_terminated(c.conn)
              THEN h_go_to_active_state(u0)
              ELSE u0
    IN h_check_for_fatal(u1)

\* the Active arm of both updates, after the channels manager ran
after_channels_update(sh, m) ==
    h_map_channels_manager_result(
        Upd([sh EXCEPT !.channels_manager = m.cm], m.events, m.updated, m.to_send),
        m.to_send)

Sharee_waiting_for_packet(sh) ==
    CASE sh.state = "Connection" -> ClientConnectionSeqSM_waiting_for_packet(sh.connection_seq)
      [] sh.state = "Active" -> ChannelsManager_waiting_for_packet(sh.channels_manager)
      [] OTHER -> FALSE

\* variant: an Activate message also ends the session
on_active_message_activate(sh, msg) ==
    IF msg.type \in {"Terminate", "Activate"}
    THEN h_transition_state(Upd(sh, <<>>, {}, <<>>), "Final")
    ELSE Upd(sh, <<>>, {}, <<>>)

\* the Active arm of update_with_body for a now message
on_active_message(sh, msg) ==
    IF msg.type = "Terminate"
    THEN h_transition_state(Upd(sh, <<>>, {}, <<>>), "Final")
    ELSE Upd(sh, <<>>, {}, <<>>)

\* variant: in Final the call is reported as an error, as update_with_body does
Sharee_update_without_body_error(sh) ==
    CASE sh.state = "Connection" ->
           after_connection_update(sh,
               ClientConnectionSeqSM_update_without_message(sh.connection_seq, sh.sm_data))
      [] sh.state = "Active" ->
           after_channels_update(sh,
               ChannelsManager_update_without_virt_msg(sh.channels_manager))
      [] OTHER -> Upd(sh, <<Error("unexpected call in final state")>>, {}, <<>>)

Sharee_update_without_body(sh) ==
    CASE sh.state = "Connection" ->
           after_connection_update(sh,
               ClientConnectionSeqSM_update_without_message(sh.connection_seq, sh.sm_data))
      [] sh.state = "Active" ->
           after_channels_update(sh,
               ChannelsManager_update_without_virt_msg(sh.channels_manager))
      [] OTHER -> Upd(sh, <<PacketToSend("Terminate", <<>>)>>, {}, <<>>)

\* variant: a call in Final reopens the session
Sharee_update_with_body_reopen(sh, body) ==
    IF body.kind = "Message"
    THEN CASE sh.state = "Connection" ->
                after_connection_update(sh,
                    ClientConnectionSeqSM_update_with_message(sh.connection_seq,
                                                              sh.sm_data, body.msg))
           [] sh.state = "Active" -> on_active_message(sh, body.msg)
           [] OTHER -> h_transition_state(Upd(sh, <<>>, {}, <<>>), "Active")
    ELSE CASE sh.state = "Connection" ->
                Upd(sh, <<Error("unexpected call in connection state with a virtual channel message")>>,
                    {}, <<>>)
           [] sh.state = "Active" ->
                after_channels_update(sh,
                    ChannelsManager_update_with_virt_msg(sh.channels_manager, body.msg))
           [] OTHER ->
                Upd(sh, <<Error("unexpected call in final state with a virtual channel message")>>,
                    {}, <<>>)

Sharee_update_with_body(sh, body) ==
    IF body.kind = "Message"
    THEN CASE sh.state = "Connection" ->
                after_connection_update(sh,
                    ClientConnectionSeqSM_update_with_message(sh.connection_seq,
                                                              sh.sm_data, body.msg))
           [] sh.state = "Active" -> on_active_message(sh, body.msg)
           [] OTHER ->
                Upd(sh, <<Error("unexpected call in final state with a now message")>>,
                    {}, <<>>)
    ELSE CASE sh.state = "Connection" ->
                Upd(sh, <<Error("unexpected call in connection state with a virtual channel message")>>,
                    {}, <<>>)
           [] sh.state = "Active" ->
                after_channels_update(sh,
                    ChannelsManager_update_with_virt_msg(sh.channels_manager, body.msg))
           [] OTHER ->
                Upd(sh, <<Error("unexpected call in final state with a virtual channel message")>>,
                    {}, <<>>)

(***************************************************************************)
(* Configurations the host can build.                                      *)
(***************************************************************************)
\* supported auth types and the authenticate machine handed to the builder
AuthConfigs ==
    {<<(<<"PFP", "SRP">>), AuthenticateSM_new("PFP")>>,
     <<(<<"None">>), AuthenticateSM_new("PFP")>>,
     <<(<<"PFP", "SRP">>), DummyConnectionSM>>}

\* channels to open and the order of the add_sm calls
ChannelConfigs ==
    {<<(<<"Clipboard", "Chat">>), (<<"Chat", "Clipboard">>)>>,
     <<(<<"Chat">>), (<<"Chat">>)>>}

Bodies == {[kind |-> "Message", msg |-> m] : m \in Messages}
          \cup {[kind |-> "VirtualChannel", msg |-> m] : m \in VirtMsgs}

NoBody == [kind |-> "None", msg |-> VirtMsg("-", "", FALSE, FALSE)]

TheSharee == ShareeOf(state, connection_seq, channels_manager, sm_data, channels_ctx)

\* the argument of a call without the lists it carries
Brief(body) ==
    IF body.kind = "Message"
    THEN [kind |-> "Message", type |-> body.msg.type, sub |-> body.msg.sub,
          code |-> body.msg.code]
    ELSE [kind |-> body.kind, type |-> body.msg.chan, sub |-> body.msg.sub,
          code |-> IF body.msg.failure THEN "failure"
                   ELSE IF body.msg.accept THEN "accept" ELSE ""]

\* whether the call makes the coordinator's current sub-machine terminated
SubTerminated(body) ==
    CASE body.kind = "None" ->
           SM_is_terminated(SM_update_without_message(connection_seq.current_sm, sm_data,
                                                      connection_seq.shared_data).sm)
      [] body.kind = "Message" ->
           SM_is_terminated(SM_update_with_message(connection_seq.current_sm, sm_data,
                                                   body.msg).sm)
      [] OTHER -> FALSE

\* the record of a call: its argument and the state it was made in
CallOf(op, body, u, through_conn) ==
    [op |-> op, body |-> Brief(body),
     auths |-> IF body.kind = "Message" THEN body.msg.auth_list ELSE <<>>,
     defs |-> IF body.kind = "Message" THEN body.msg.channel_list ELSE <<>>,
     state |-> state,
     conn_state |-> connection_seq.state,
     sub |-> connection_seq.current_sm,
     sub_terminated |-> through_conn /\ SubTerminated(body),
     updated |-> u.updated,
     to_send |-> u.to_send]

NoCall == [op |-> "build", body |-> Brief(NoBody), auths |-> <<>>, defs |-> <<>>,
           state |-> "Connection",
           conn_state |-> "Handshake", sub |-> HandshakeSM_new,
           sub_terminated |-> FALSE,
           updated |-> {}, to_send |-> <<>>]


(***************************************************************************)
(* Enums with an integer discriminant.                                     *)
(***************************************************************************)

\* the enums of the wire: width of the discriminant, values of the named
\* variants, and whether a #[fallback] variant Other(raw) is declared
WireEnums ==
    [MessageType |-> [repr |-> 8, values |-> MessageTypeValues, fallback |-> TRUE],
     SeverityLevel |-> [repr |-> 8, values |-> 0..3, fallback |-> TRUE],
     StatusType |-> [repr |-> 8, values |-> 0..3 \cup 21..26 \cup 129..131,
                     fallback |-> TRUE],
     AuthStatusCode |-> [repr |-> 16, values |-> 0..9 \cup {65535},
                         fallback |-> TRUE],
     AuthType |-> [repr |-> 8, values |-> 0..8, fallback |-> FALSE],
     AuthenticateMessageType |-> [repr |-> 8, values |-> 1..3, fallback |-> FALSE],
     ChatMessageType |-> [repr |-> 8, values |-> 0..6, fallback |-> FALSE],
     ClipboardMessageType |-> [repr |-> 8, values |-> 1..12, fallback |-> FALSE],
     ClipboardControlState |-> [repr |-> 16, values |-> 0..2, fallback |-> FALSE]]

EnumOk(variant, v) == [ok |-> TRUE, variant |-> variant, value |-> v]

EnumErr == [ok |-> FALSE, variant |-> "-", value |-> 0]

\* Encode for u8 and u16: little endian
repr_encode(repr, v) == IF repr = 8 THEN <<v>> ELSE u16_encode(v)

\* Decode for u8 and u16 (Cursor::read_u8, read_u16)
repr_decode(b) == IF Len(b) = 1 THEN b[1] ELSE b[1] + 256 * b[2]


\* From<repr> for an enum with a fallback variant
Enum_from(e, v) ==
    IF v \in e.values THEN EnumOk("Named", v) ELSE EnumOk("Other", v)

\* Decode for an enum: with a fallback variant, From<repr> (the named variant,
\* else the fallback holding the value); without one the enum has the named
\* variants only and a value outside them has no variant to decode to
Enum_decode_from(e, b) ==
    LET v == repr_decode(b)
    IN IF e.fallback \/ v \in e.values THEN Enum_from(e, v) ELSE EnumErr

\* Encode for an enum: the variant's value, or the fallback's content
Enum_encode(e, x) == repr_encode(e.repr, x.value)


(***************************************************************************)
(* NowStatus.  A u32 is held as its two 16-bit halves [hi, lo], its value  *)
(* being hi * 65536 + lo.                                                  *)
(***************************************************************************)

U32(hi, lo) == [hi |-> hi, lo |-> lo]

\* Encode for u32: little endian
U32_encode(r) == u16_encode(r.lo) \o u16_encode(r.hi)

\* Decode for u32 (Cursor::read_u32)
U32_decode(b) == U32(b[3] + 256 * b[4], b[1] + 256 * b[2])

\* variant: the severity is shifted by 24 bits
NowStatusBuilder_build_shift24(severity, status_type, code) ==
    [repr |-> U32((severity.value * 256 + status_type.value) % 65536, code.value),
     severity |-> severity, status_type |-> status_type, code |-> code]

\* NowStatusBuilder::build: (severity << 30) + (status_type << 16) + code in
\* u32; the shift drops the bits of the severity above the second
NowStatusBuilder_build(severity, status_type, code) ==
    [repr |-> U32((severity.value % 4) * 16384 + status_type.value, code.value),
     severity |-> severity, status_type |-> status_type, code |-> code]

\* TryFrom<u32> for NowStatus: the three conversions to u8 and u16 cannot fail
NowStatus_try_from(repr) ==
    [repr |-> repr,
     severity |-> Enum_from(WireEnums.SeverityLevel, repr.hi \div 16384),
     status_type |-> Enum_from(WireEnums.StatusType, repr.hi % 256),
     code |-> Enum_from(WireEnums.AuthStatusCode, repr.lo)]

\* Encode for NowStatus: the u32
NowStatus_encode(s) == U32_encode(s.repr)

\* Decode for NowStatus
NowStatus_decode_from(b) == NowStatus_try_from(U32_decode(b))


(***************************************************************************)
(* Cursor: a byte slice and a position.  A value read is kept as its       *)
(* little-endian bytes.                                                    *)
(***************************************************************************)

Cursor_new(inner) == [inner |-> inner, pos |-> 0]

\* <[u8]>::get(a..b): the bytes from a up to b excluded, None when the range
\* is not inside the slice
slice_get(inner, a, b) ==
    IF a <= b /\ b <= Len(inner)
    THEN [found |-> TRUE, value |-> SubSeq(inner, a + 1, b)]
    ELSE [found |-> FALSE, value |-> <<>>]

CursorOk(c, bytes) == [kind |-> "Ok", bytes |-> bytes, cursor |-> c]

CursorEof(c) == [kind |-> "UnexpectedEof", bytes |-> <<>>, cursor |-> c]

\* range.try_into().unwrap() to an array of `width` bytes fails on a slice of
\* another length
CursorPanic(c) == [kind |-> "panic", bytes |-> <<>>, cursor |-> c]

\* Cursor::peek_u8 (width 1, get(pos)) and peek_u16, peek_u32, peek_u64, which
\* take get(pos..pos + width - 1) and convert it to an array of width bytes
Cursor_peek(c, width) ==
    LET range == slice_get(c.inner, c.pos, IF width = 1 THEN c.pos + 1
                                           ELSE c.pos + width - 1)
    IN IF ~range.found THEN CursorEof(c)
       ELSE IF Len(range.value) # width THEN CursorPanic(c)
       ELSE CursorOk(c, range.value)

\* Cursor::read_n
Cursor_read_n(c, n) ==
    LET bytes == slice_get(c.inner, c.pos, c.pos + n)
    IN IF ~bytes.found THEN CursorEof(c)
       ELSE CursorOk([c EXCEPT !.pos = c.pos + n], bytes.value)

\* Cursor::read_u8 .. read_u64 and read_i8 .. read_i64: get(pos..pos + width),
\* the position moves by the width
Cursor_read(c, width) ==
    LET range == slice_get(c.inner, c.pos, c.pos + width)
    IN IF ~range.found THEN CursorEof(c)
       ELSE IF Len(range.value) # width THEN CursorPanic(c)
       ELSE CursorOk([c EXCEPT !.pos = c.pos + width], range.value)

\* Cursor::set_position
Cursor_set_position(c, pos) == [c EXCEPT !.pos = pos]

(***************************************************************************)
(* Containers (container.rs): a count of K bits, little endian, and the    *)
(* items.  A count of 65536 or more is kept as 65536, which is more than   *)
(* any slice here holds.                                                   *)
(***************************************************************************)
\* <$size_ty>::from_le_bytes
size_ty_from_le_bytes(bytes) ==
    IF \E i \in 3..Len(bytes) : bytes[i] # 0 THEN 65536
    ELSE bytes[1] + (IF Len(bytes) > 1 THEN 256 * bytes[2] ELSE 0)

ContainerOk(c, items) == [ok |-> TRUE, items |-> items, cursor |-> c]

ContainerErr(c) == [ok |-> FALSE, items |-> <<>>, cursor |-> c]

\* the loop `for i in 0..count { vec.push(Item::decode_from(cursor)?) }` for
\* items of one byte
RECURSIVE decode_items(_, _, _)
decode_items(c, count, vec) ==
    IF count = 0 THEN ContainerOk(c, vec)
    ELSE LET item == Cursor_read(c, 1)
         IN IF item.kind # "Ok" THEN ContainerErr(item.cursor)
            ELSE decode_items(item.cursor, count - 1, vec \o item.bytes)

\* Decode for Vec8, Vec16, Vec32, Vec64 of u8 (`bits` is the width of the count)
Vec_decode_from(c, bits) ==
    LET count == Cursor_read(c, bits \div 8)
    IN IF count.kind # "Ok" THEN ContainerErr(count.cursor)
       ELSE decode_items(count.cursor, size_ty_from_le_bytes(count.bytes), <<>>)

\* Decode for Bytes8, Bytes16, Bytes32, Bytes64: the payload is borrowed from
\* cursor.get_ref() at the position, which is left where the count ended
Bytes_decode_from(c, bits) ==
    LET count == Cursor_read(c, bits \div 8)
    IN IF count.kind # "Ok" THEN ContainerErr(count.cursor)
       ELSE LET start_inclusive == count.cursor.pos
                slices_to_end == SubSeq(c.inner, start_inclusive + 1, Len(c.inner))
                n == size_ty_from_le_bytes(count.bytes)
            IN IF Len(slices_to_end) < n THEN ContainerErr(count.cursor)
               ELSE ContainerOk(count.cursor, SubSeq(slices_to_end, 1, n))

\* no call on a header yet
NoCodecCall ==
    [op |-> "none", body_type |-> BodyType_VirtualChannel(0), body_len |-> 0,
     bytes |-> <<>>, made |-> HeaderErr, round_trip |-> FALSE, wire |-> <<>>,
     back |-> HeaderErr]

\* no call on a NowString yet
NoStringCall ==
    [op |-> "none", size |-> 16, len |-> 0, prefix |-> <<0>>, avail |-> 0,
     utf8 |-> TRUE, result |-> StringErr]

\* no call on an enum, a NowStatus or a Cursor yet
NoPrimCall == [op |-> "none"]

CodecIdle ==
    /\ codec = NoCodecCall
    /\ nstr = NoStringCall
    /\ prim = NoPrimCall

AccIdle ==
    /\ acc = NowPacketAccumulator_new
    /\ acc_ctx = VirtChannelsCtx_new
    /\ pending = <<>>
    /\ fed = <<>>
    /\ out = <<>>
    /\ ret = [op |-> "new", result |-> None]

Init ==
    /\ \E ac \in AuthConfigs, cc \in ChannelConfigs :
          LET sh == ShareeBuilder_build(ClientConnectionSeqSM_new(ac[1], ac[2]),
                                        ac[1], cc[1], ChannelsManager_with(cc[2]))
          IN /\ state = sh.state
             /\ connection_seq = sh.connection_seq
             /\ channels_manager = sh.channels_manager
             /\ sm_data = sh.sm_data
             /\ channels_ctx = sh.channels_ctx
    /\ events = <<>>
    /\ call = NoCall
    /\ AccIdle
    /\ CodecIdle

SetSharee(u) ==
    /\ state' = u.sh.state
    /\ connection_seq' = u.sh.connection_seq
    /\ channels_manager' = u.sh.channels_manager
    /\ sm_data' = u.sh.sm_data
    /\ channels_ctx' = u.sh.channels_ctx
    /\ events' = u.events

\* the clipboard sequence id stays within the explored range
SeqIdInRange(u) ==
    \A n \in DOMAIN u.sh.channels_manager.state_machines :
        LET sm == u.sh.channels_manager.state_machines[n]
        IN sm.kind = "Clipboard" => sm.sequence_id <= MaxSeqId

UpdateWithoutBody ==
    LET u == Sharee_update_without_body(TheSharee)
    IN /\ SetSharee(u)
       /\ call' = CallOf("update_without_body", NoBody, u, state = "Connection")
       /\ UNCHANGED <<accVars, codecVars>>

UpdateWithBody ==
    \E body \in Bodies :
        LET u == Sharee_update_with_body(TheSharee, body)
        IN /\ SeqIdInRange(u)
           /\ SetSharee(u)
           /\ call' = CallOf("update_with_body", body, u, state = "Connection")
           /\ UNCHANGED <<accVars, codecVars>>

Next == UpdateWithoutBody \/ UpdateWithBody

Spec == Init /\ [][Next]_vars

(***************************************************************************)
(* The coordinator driven directly through its ConnectionSM interface.     *)
(***************************************************************************)
SetConn(c) ==
    /\ connection_seq' = c.conn
    /\ sm_data' = c.data
    /\ events' = c.events
    /\ UNCHANGED <<state, channels_manager, channels_ctx>>

ConnUpdateWithoutMessage ==
    LET c == ClientConnectionSeqSM_update_without_message(connection_seq, sm_data)
    IN /\ SetConn(c)
       /\ call' = CallOf("update_without_message", NoBody,
                         Upd(TheSharee, <<>>, {}, <<>>), TRUE)
       /\ UNCHANGED <<accVars, codecVars>>

ConnUpdateWithMessage ==
    \E m \in Messages :
        LET c == ClientConnectionSeqSM_update_with_message(connection_seq, sm_data, m)
        IN /\ SetConn(c)
           /\ call' = CallOf("update_with_message", [kind |-> "Message", msg |-> m],
                             Upd(TheSharee, <<>>, {}, <<>>), TRUE)
           /\ UNCHANGED <<accVars, codecVars>>

NextConn == ConnUpdateWithoutMessage \/ ConnUpdateWithMessage

SpecConn == Init /\ [][NextConn]_vars

(***************************************************************************)
(* The accumulator fed with a peer's byte stream in chunks.                *)
(***************************************************************************)
\* whole packets as the peer writes them
WirePackets ==
    {<<0, 0, 0, 128>>,           \* short header, Status message, empty body
     <<1, 0, 0, 128, 7>>,        \* short header, Status message, one byte
     <<0, 0, 8, 128>>,           \* short header, Terminate message cut to nothing
     <<2, 0, 1, 129, 5, 6>>,     \* short header, virtual channel 1, two bytes
     <<1, 0, 0, 0, 0, 0, 9>>,    \* long header, Status message, one byte
     <<0, 0, 0, 0, 1, 1>>}       \* long header, virtual channel 1, empty body

\* what the stream ends with: nothing, or the beginning of a packet
WireTails ==
    {<<>>,
     <<3, 0, 0>>,                \* a header cut before its flags
     <<3, 0, 0, 128, 1>>,        \* a short header and a part of its body
     <<0, 0, 0, 0>>}             \* a long header cut after its length

RECURSIVE WireStreams(_)
WireStreams(n) ==
    IF n = 0 THEN {<<>>}
    ELSE WireStreams(n - 1) \cup {s \o p : s \in WireStreams(n - 1), p \in WirePackets}

\* the contexts next_packet is called with
WireContexts == {VirtChannelsCtx_new, VirtChannelsCtx_insert(VirtChannelsCtx_new, 1, "Custom")}

InitAcc ==
    /\ \E ac \in {<<(<<"PFP", "SRP">>), AuthenticateSM_new("PFP")>>},
          cc \in {<<(<<"Chat">>), (<<"Chat">>)>>} :
          LET sh == ShareeBuilder_build(ClientConnectionSeqSM_new(ac[1], ac[2]),
                                        ac[1], cc[1], ChannelsManager_with(cc[2]))
          IN /\ state = sh.state
             /\ connection_seq = sh.connection_seq
             /\ channels_manager = sh.channels_manager
             /\ sm_data = sh.sm_data
             /\ channels_ctx = sh.channels_ctx
    /\ events = <<>>
    /\ call = NoCall
    /\ acc = NowPacketAccumulator_new
    /\ acc_ctx \in WireContexts
    /\ pending \in {s \o t : s \in WireStreams(MaxPackets), t \in WireTails}
    /\ fed = <<>>
    /\ out = <<>>
    /\ ret = [op |-> "new", result |-> None]
    /\ CodecIdle

Accumulate ==
    \E n \in 1..MaxChunk :
        /\ n <= Len(pending)
        /\ acc' = accumulate(acc, SubSeq(pending, 1, n))
        /\ fed' = fed \o SubSeq(pending, 1, n)
        /\ pending' = SubSeq(pending, n + 1, Len(pending))
        /\ ret' = [op |-> "accumulate", result |-> None]
        /\ UNCHANGED <<acc_ctx, out>>
        /\ UNCHANGED <<shareeVars, codecVars>>

NextPacket ==
    LET r == next_packet(acc, acc_ctx)
    IN /\ acc' = r.acc
       /\ out' = IF r.result.some THEN Append(out, r.result) ELSE out
       /\ ret' = [op |-> "next_packet", result |-> r.result]
       /\ UNCHANGED <<acc_ctx, pending, fed>>
       /\ UNCHANGED <<shareeVars, codecVars>>

PurgeOldPackets ==
    /\ acc' = purge_old_packets(acc)
    /\ ret' = [op |-> "purge_old_packets", result |-> None]
    /\ UNCHANGED <<acc_ctx, pending, fed, out>>
    /\ UNCHANGED <<shareeVars, codecVars>>

\* feeding all the bytes at once to a new accumulator and calling next_packet
\* until it returns None: the results in the order returned
RECURSIVE Drain(_, _)
Drain(a, ctx) ==
    LET r == next_packet(a, ctx)
    IN IF r.result.some THEN <<r.result>> \o Drain(r.acc, ctx) ELSE <<>>

AllAtOnce(bytes, ctx) == Drain(accumulate(NowPacketAccumulator_new, bytes), ctx)

NextAcc == Accumulate \/ NextPacket \/ PurgeOldPackets

SpecAcc == InitAcc /\ [][NextAcc]_vars

(***************************************************************************)
(* Headers, packet constructors and NowStrings called with the arguments   *)
(* around their limits.                                                    *)
(***************************************************************************)
\* the message types of the calls, as From<u8> yields them: named ones and
\* the fallback variant of unrecognized values
CodecMessageTypes == {MessageType_from(v) : v \in {0, 1, 8, 66, 9, 171}}

CodecBodyTypes ==
    {BodyType_Message(mt) : mt \in CodecMessageTypes}
    \cup {BodyType_VirtualChannel(id) : id \in {0, 1, 255}}

\* body lengths around 2^15 and 2^16
CodecBodyLens == {0, 1, 40, 797, 32767, 32768, 65535, 65536, 65537, 70000, 98303}

\* the bytes a header is read from: nothing, a cut prefix, four bytes, and
\* four bytes with more behind them
CodecBytes ==
    LET four == {<<l1, l2, t, f>> : l1 \in {0, 40}, l2 \in {0, 3}, t \in {0, 1, 9, 66},
                                    f \in {0, 1, 7, 8, 9, 64, 127, 128, 129, 255}}
    IN {<<>>, <<0, 0, 0>>}
       \cup {p \o t : p \in four, t \in {<<>>, <<0>>, <<0, 66>>, <<1, 1>>, <<128, 9>>}}

CodecCall(op, body_type, body_len, bytes, made) ==
    [op |-> op, body_type |-> body_type, body_len |-> body_len, bytes |-> bytes,
     made |-> made, round_trip |-> FALSE, wire |-> <<>>, back |-> HeaderErr]

InitCodec ==
    /\ \E ac \in {<<(<<"PFP", "SRP">>), AuthenticateSM_new("PFP")>>},
          cc \in {<<(<<"Chat">>), (<<"Chat">>)>>} :
          LET sh == ShareeBuilder_build(ClientConnectionSeqSM_new(ac[1], ac[2]),
                                        ac[1], cc[1], ChannelsManager_with(cc[2]))
          IN /\ state = sh.state
             /\ connection_seq = sh.connection_seq
             /\ channels_manager = sh.channels_manager
             /\ sm_data = sh.sm_data
             /\ channels_ctx = sh.channels_ctx
    /\ events = <<>>
    /\ call = NoCall
    /\ AccIdle
    /\ CodecIdle

HeaderNew ==
    \E bt \in CodecBodyTypes, n \in CodecBodyLens :
        /\ codec' = CodecCall("new", bt, n, <<>>, HeaderOk(NowHeader_new(bt, n)))
        /\ nstr' = NoStringCall
        /\ prim' = NoPrimCall
        /\ UNCHANGED <<shareeVars, accVars>>

FromMessage ==
    \E mt \in {t \in CodecMessageTypes : t.variant = "Named"}, n \in CodecBodyLens :
        /\ codec' = CodecCall("from_message", BodyType_Message(mt), n, <<>>,
                        HeaderOk(NowPacket_from_message(
                                     [type |-> mt, encoded_len |-> n]).header))
        /\ nstr' = NoStringCall
        /\ prim' = NoPrimCall
        /\ UNCHANGED <<shareeVars, accVars>>

FromVirtChannel ==
    \E id \in {0, 1, 255}, n \in CodecBodyLens :
        /\ codec' = CodecCall("from_virt_channel", BodyType_VirtualChannel(id), n, <<>>,
                        HeaderOk(NowPacket_from_virt_channel(
                                     [encoded_len |-> n], id).header))
        /\ nstr' = NoStringCall
        /\ prim' = NoPrimCall
        /\ UNCHANGED <<shareeVars, accVars>>

HeaderDecode ==
    \E b \in CodecBytes :
        /\ codec' = CodecCall("decode", BodyType_VirtualChannel(0), 0, b,
                              NowHeader_read_from(b))
        /\ nstr' = NoStringCall
        /\ prim' = NoPrimCall
        /\ UNCHANGED <<shareeVars, accVars>>

\* the header a call made is encoded and the bytes are decoded again
HeaderRoundTrip ==
    /\ codec.made.ok
    /\ ~codec.round_trip
    /\ codec' = [codec EXCEPT !.round_trip = TRUE,
                              !.wire = NowHeader_encode(codec.made.header),
                              !.back = NowHeader_read_from(
                                           NowHeader_encode(codec.made.header))]
    /\ nstr' = NoStringCall
    /\ prim' = NoPrimCall
    /\ UNCHANGED <<shareeVars, accVars>>

\* string lengths and size prefixes around the SIZE of the type
StringLens(size) == {0, 1, size - 1, size, size + 1, size + 2}

StringPrefixes(size) ==
    IF SizeType_len(size) = 1
    THEN {<<v>> : v \in (StringLens(size) \cup {255}) \cap 0..255}
    ELSE {u16_encode(v) : v \in (StringLens(size) \cup {255, 256}) \cap 0..65535}

StringTryFrom ==
    \E size \in NowStringSizes : \E len \in StringLens(size) :
        /\ nstr' = [op |-> "try_from", size |-> size, len |-> len,
                    prefix |-> <<0>>, avail |-> 0, utf8 |-> TRUE,
                    result |-> NowString_try_from(size, len)]
        /\ codec' = NoCodecCall
        /\ prim' = NoPrimCall
        /\ UNCHANGED <<shareeVars, accVars>>

StringDecode ==
    \E size \in NowStringSizes : \E prefix \in StringPrefixes(size) :
        \E extra \in {-1, 0, 1, 2}, utf8 \in BOOLEAN :
            /\ SizeType_decode(prefix) + extra >= 0
            /\ nstr' = [op |-> "decode", size |-> size, len |-> 0,
                        prefix |-> prefix,
                        avail |-> SizeType_decode(prefix) + extra, utf8 |-> utf8,
                        result |-> NowString_decode_from(size, prefix,
                                       SizeType_decode(prefix) + extra, utf8)]
            /\ codec' = NoCodecCall
            /\ prim' = NoPrimCall
        /\ UNCHANGED <<shareeVars, accVars>>

\* a string the type accepts is encoded, and what was written is decoded
StringEncode ==
    \E size \in NowStringSizes : \E len \in StringLens(size) :
        LET s == NowString_try_from(size, len)
            w == NowString_encode_into(size, s)
        IN /\ s.ok
           /\ nstr' = [op |-> "encode", size |-> size, len |-> len,
                       prefix |-> w.prefix, avail |-> w.bytes + w.nul, utf8 |-> TRUE,
                       result |-> IF w.kind = "Ok"
                                  THEN NowString_decode_from(size, w.prefix,
                                                             w.bytes + w.nul, TRUE)
                                  ELSE StringErr,
                       wrote |-> w]
           /\ codec' = NoCodecCall
           /\ prim' = NoPrimCall
           /\ UNCHANGED <<shareeVars, accVars>>

NextCodec ==
    \/ StringEncode
    \/ HeaderNew
    \/ FromMessage
    \/ FromVirtChannel
    \/ HeaderDecode
    \/ HeaderRoundTrip
    \/ StringTryFrom
    \/ StringDecode

SpecCodec == InitCodec /\ [][NextCodec]_vars


\* longest slice under a Cursor
MaxCursorLen == 9

(***************************************************************************)
(* The enums, NowStatus and the Cursor: a call is drawn by the initial     *)
(* state and the actions make it.                                          *)
(***************************************************************************)

\* raw discriminants: every u8, and the u16 around the named values and the
\* ends of the range
EnumRaws(e) ==
    IF e.repr = 8 THEN 0..255 ELSE 0..12 \cup {255, 256, 65534, 65535}

EnumRequests ==
    UNION {{[op |-> "enum", done |-> FALSE, ty |-> ty, raw |-> raw] :
               raw \in EnumRaws(WireEnums[ty])} : ty \in DOMAIN WireEnums}

\* severities, status types and codes: named and unnamed ones, and the ends
\* of the ranges
StatusRequests ==
    {[op |-> "status", done |-> FALSE, severity |-> sv, status_type |-> st,
      code |-> cd] :
        sv \in {0, 1, 2, 3, 4, 7, 255},
        st \in {0, 1, 3, 4, 21, 23, 127, 128, 131, 255},
        cd \in {0, 1, 9, 10, 255, 256, 65534, 65535}}

\* four bytes received where a status is expected: every value of the two
\* top bits, reserved bits clear and set
StatusRawRequests ==
    {[op |-> "status_raw", done |-> FALSE, bytes |-> <<b1, b2, b3, b4>>] :
        b1 \in {0, 255}, b2 \in {0, 255}, b3 \in {0, 1, 255},
        b4 \in {0, 1, 63, 64, 128, 193, 255}}

\* a fresh Cursor over the bytes 1, 2, .. up to each length
CursorRequests ==
    {[op |-> "cursor", cursor |-> Cursor_new([i \in 1..n |-> i]), call |-> "new",
      width |-> 0, before |-> 0, kind |-> "Ok", bytes |-> <<>>] :
        n \in 0..MaxCursorLen}

\* the count `n` on `bits` bits
CountPrefix(n, bits) ==
    [i \in 1..(bits \div 8) |-> IF i = 1 THEN n % 256
                                 ELSE IF i = 2 THEN (n \div 256) % 256
                                 ELSE IF i = 3 THEN n \div 65536 ELSE 0]

\* slices holding `lead` bytes of another field, a count, the bytes 11, 12, ..
\* and, for the short ones, a count cut to its first byte
ContainerSlices(bits) ==
    {[i \in 1..lead |-> 7] \o CountPrefix(n, bits) \o [i \in 1..m |-> 10 + i] :
        lead \in 0..1, n \in {0, 1, 2, 3, 256, 65536}, m \in 0..4}
    \cup {<<>>, <<2>>}

ContainerRequests ==
    UNION {{[op |-> "container", done |-> FALSE, bits |-> bits, inner |-> s,
             start |-> IF s # <<>> /\ s[1] = 7 THEN 1 ELSE 0] :
               s \in ContainerSlices(bits)} : bits \in {8, 16, 32, 64}}

PrimRequests ==
    EnumRequests \cup StatusRequests \cup StatusRawRequests \cup CursorRequests
        \cup ContainerRequests

InitPrim ==
    /\ \E ac \in {<<(<<"PFP", "SRP">>), AuthenticateSM_new("PFP")>>},
          cc \in {<<(<<"Chat">>), (<<"Chat">>)>>} :
          LET sh == ShareeBuilder_build(ClientConnectionSeqSM_new(ac[1], ac[2]),
                                        ac[1], cc[1], ChannelsManager_with(cc[2]))
          IN /\ state = sh.state
             /\ connection_seq = sh.connection_seq
             /\ channels_manager = sh.channels_manager
             /\ sm_data = sh.sm_data
             /\ channels_ctx = sh.channels_ctx
    /\ events = <<>>
    /\ call = NoCall
    /\ AccIdle
    /\ codec = NoCodecCall
    /\ nstr = NoStringCall
    /\ prim \in PrimRequests

\* a discriminant is decoded and the value obtained is encoded again
EnumDecode ==
    /\ prim.op = "enum"
    /\ ~prim.done
    /\ LET e == WireEnums[prim.ty]
           b == repr_encode(e.repr, prim.raw)
           r == Enum_decode_from(e, b)
       IN prim' = [op |-> "enum", done |-> TRUE, ty |-> prim.ty, raw |-> prim.raw,
                   bytes |-> b, result |-> r,
                   again |-> IF r.ok THEN Enum_encode(e, r) ELSE <<>>]
    /\ UNCHANGED <<shareeVars, accVars, codec, nstr>>

\* a status is built, encoded, decoded and encoded again
StatusBuild ==
    /\ prim.op = "status"
    /\ ~prim.done
    /\ LET built == NowStatusBuilder_build(
                        Enum_from(WireEnums.SeverityLevel, prim.severity),
                        Enum_from(WireEnums.StatusType, prim.status_type),
                        Enum_from(WireEnums.AuthStatusCode, prim.code))
           parsed == NowStatus_decode_from(NowStatus_encode(built))
       IN prim' = [prim EXCEPT !.done = TRUE] @@
                  [built |-> built, bytes |-> NowStatus_encode(built),
                   parsed |-> parsed, again |-> NowStatus_encode(parsed)]
    /\ UNCHANGED <<shareeVars, accVars, codec, nstr>>

\* a status is decoded from four bytes and encoded again
StatusDecode ==
    /\ prim.op = "status_raw"
    /\ ~prim.done
    /\ LET parsed == NowStatus_decode_from(prim.bytes)
       IN prim' = [prim EXCEPT !.done = TRUE] @@
                  [parsed |-> parsed, again |-> NowStatus_encode(parsed)]
    /\ UNCHANGED <<shareeVars, accVars, codec, nstr>>

CursorCall(name, width, r) ==
    [op |-> "cursor", cursor |-> r.cursor, call |-> name, width |-> width,
     before |-> prim.cursor.pos, kind |-> r.kind, bytes |-> r.bytes]

CursorPeek ==
    /\ prim.op = "cursor"
    /\ prim.kind # "panic"
    /\ \E width \in {1, 2, 4, 8} :
           prim' = CursorCall("peek", width, Cursor_peek(prim.cursor, width))
    /\ UNCHANGED <<shareeVars, accVars, codec, nstr>>

CursorRead ==
    /\ prim.op = "cursor"
    /\ prim.kind # "panic"
    /\ \E width \in {1, 2, 4, 8}, name \in {"read_u", "read_i"} :
           prim' = CursorCall(name, width, Cursor_read(prim.cursor, width))
    /\ UNCHANGED <<shareeVars, accVars, codec, nstr>>

CursorReadN ==
    /\ prim.op = "cursor"
    /\ prim.kind # "panic"
    /\ \E n \in 0..(MaxCursorLen + 1) :
           prim' = CursorCall("read_n", n, Cursor_read_n(prim.cursor, n))
    /\ UNCHANGED <<shareeVars, accVars, codec, nstr>>

\* the position may be set past the end of the slice
CursorSetPosition ==
    /\ prim.op = "cursor"
    /\ prim.kind # "panic"
    /\ \E pos \in 0..(Len(prim.cursor.inner) + 1) :
           prim' = CursorCall("set_position", 0,
                       CursorOk(Cursor_set_position(prim.cursor, pos), <<>>))
    /\ UNCHANGED <<shareeVars, accVars, codec, nstr>>

\* the same bytes are decoded as a BytesK and as a VecK of u8, from a cursor
\* set at the beginning of the field
ContainerDecode ==
    /\ prim.op = "container"
    /\ ~prim.done
    /\ LET c == Cursor_set_position(Cursor_new(prim.inner), prim.start)
       IN prim' = [prim EXCEPT !.done = TRUE] @@
                  [as_bytes |-> Bytes_decode_from(c, prim.bits),
                   as_vec |-> Vec_decode_from(c, prim.bits)]
    /\ UNCHANGED <<shareeVars, accVars, codec, nstr>>

NextPrim ==
    \/ CursorPeek
    \/ CursorRead
    \/ CursorReadN
    \/ CursorSetPosition
    \/ EnumDecode
    \/ StatusBuild
    \/ StatusDecode
    \/ ContainerDecode

SpecPrim == InitPrim /\ [][NextPrim]_vars

(***************************************************************************)
(* The host's pump loop (wayk_cli_client/src/main.rs): while the Sharee    *)
(* waits for a packet, the next packet the accumulator decodes is handed   *)
(* to update_with_body; while it does not, update_without_body is called.  *)
(* The loop is left once the Sharee is terminated.                         *)
(***************************************************************************)
\* ChatData::friendly_name: the builder takes any string
ChatData_friendly_name(config, len) == [config EXCEPT !.friendly_name = len]

\* the chat configurations of the host: the default one, and a friendly name
\* one byte longer than a NowString65535 holds
ChatDatas == {ChatData_new, ChatData_friendly_name(ChatData_new, 65536)}

\* the channels manager whose chat machine was built from `config`
WithChatData(cm, config) ==
    [cm EXCEPT !.state_machines =
        [n \in DOMAIN @ |-> IF @[n].kind = "Chat" THEN ChatChannelSM_new(config)
                                                  ELSE @[n]]]

\* Sharee::is_terminated
Sharee_is_terminated(sh) == sh.state = "Final"

\* the bodies next_packet can hand over: NowPacket::decode_from resolves a
\* virtual channel's id through the channels context and fails on an id
\* the context does not hold
DecodableBodies(ctx) ==
    {b \in Bodies : b.kind = "VirtualChannel" =>
                       \E id \in DOMAIN ctx : get_channel_by_id(ctx, id) = b.msg.chan}

InitPump ==
    /\ \E ac \in AuthConfigs, cc \in ChannelConfigs, cd \in ChatDatas :
          LET sh == ShareeBuilder_build(ClientConnectionSeqSM_new(ac[1], ac[2]),
                                        ac[1], cc[1],
                                        WithChatData(ChannelsManager_with(cc[2]), cd))
          IN /\ state = sh.state
             /\ connection_seq = sh.connection_seq
             /\ channels_manager = sh.channels_manager
             /\ sm_data = sh.sm_data
             /\ channels_ctx = sh.channels_ctx
    /\ events = <<>>
    /\ call = NoCall
    /\ AccIdle
    /\ CodecIdle

\* one turn of `while !sharee.waiting_for_packet()`
PumpWithoutBody ==
    /\ ~Sharee_is_terminated(TheSharee)
    /\ ~Sharee_waiting_for_packet(TheSharee)
    /\ UpdateWithoutBody

\* one turn of `while sharee.waiting_for_packet()` in which a packet was decoded
PumpWithBody ==
    /\ ~Sharee_is_terminated(TheSharee)
    /\ Sharee_waiting_for_packet(TheSharee)
    /\ \E body \in DecodableBodies(channels_ctx) :
          LET u == Sharee_update_with_body(TheSharee, body)
          IN /\ SeqIdInRange(u)
             /\ SetSharee(u)
             /\ call' = CallOf("update_with_body", body, u, state = "Connection")
             /\ UNCHANGED <<accVars, codecVars>>

NextPump == PumpWithoutBody \/ PumpWithBody

SpecPump == InitPump /\ [][NextPump]_vars

(***************************************************************************)
(* One channel machine driven directly through its VirtualChannelSM        *)
(* interface: the manager holds that machine alone, `events` are those of  *)
(* the last call and `call` records the call, the machine before it, the   *)
(* responses pushed, the callbacks invoked and the sequence ids sent.      *)
(***************************************************************************)
TheChannel == CHOOSE n \in DOMAIN channels_manager.state_machines : TRUE

TheChannelSM == channels_manager.state_machines[TheChannel]

\* a CapabilitiesRsp with the failure flag handed to a machine in Capabilities
CapabilitiesRefused(op, msg, sm) ==
    /\ op = "update_with_chan_msg"
    /\ sm.kind = "Clipboard"
    /\ sm.state = "Capabilities"
    /\ msg.chan = "Clipboard"
    /\ msg.sub = "CapabilitiesRsp"
    /\ msg.failure

\* `refused` remembers that the capabilities exchange failed at some call,
\* `sent` the sequence ids of the FormatListRsp messages sent so far, `synced`
\* that on_synced was invoked at some call
ChanCallOf(op, msg, r) ==
    [op |-> op, msg |-> msg, before |-> TheChannelSM,
     to_send |-> r.to_send, callbacks |-> r.callbacks, ids |-> r.ids,
     refused |-> call.refused \/ CapabilitiesRefused(op, msg, TheChannelSM),
     sent |-> call.sent \o r.ids,
     synced |-> call.synced \/ "on_synced" \in Range(r.callbacks)]

NoChanMsg == VirtMsg("-", "", FALSE, FALSE)

InitChan ==
    /\ \E name \in {"Clipboard", "Chat"} :
          LET sh == ShareeBuilder_build(
                        ClientConnectionSeqSM_new(<<"PFP", "SRP">>, AuthenticateSM_new("PFP")),
                        <<"PFP", "SRP">>, <<name>>, ChannelsManager_with(<<name>>))
          IN /\ state = sh.state
             /\ connection_seq = sh.connection_seq
             /\ channels_manager = sh.channels_manager
             /\ sm_data = sh.sm_data
             /\ channels_ctx = sh.channels_ctx
    /\ events = <<>>
    /\ call = [op |-> "new", msg |-> NoChanMsg, before |-> TheChannelSM,
               to_send |-> <<>>, callbacks |-> <<>>, ids |-> <<>>, refused |-> FALSE,
               sent |-> <<>>, synced |-> FALSE]
    /\ AccIdle
    /\ CodecIdle

MaxIds == 3       \* sequence ids handed out by the machine driven directly

SetChannel(r) ==
    /\ r.sm.kind = "Clipboard" => r.sm.sequence_id <= MaxIds
    /\ channels_manager' = [channels_manager EXCEPT !.state_machines[TheChannel] = r.sm]
    /\ events' = r.events
    /\ UNCHANGED <<state, connection_seq, sm_data, channels_ctx, accVars, codecVars>>

ChanUpdateWithout ==
    LET r == VirtualChannelSM_update_without_chan_msg(TheChannelSM)
    IN /\ SetChannel(r)
       /\ call' = ChanCallOf("update_without_chan_msg", NoChanMsg, r)

ChanUpdateWith ==
    \E chan_msg \in VirtMsgs :
        LET r == VirtualChannelSM_update_with_chan_msg(TheChannelSM, chan_msg)
        IN /\ SetChannel(r)
           /\ call' = ChanCallOf("update_with_chan_msg", chan_msg, r)

\* the host changes the auto-fetch mode of the clipboard data
HostSetAutoFetch ==
    /\ TheChannelSM.kind = "Clipboard"
    /\ \E b \in BOOLEAN :
          LET r == ChanResult(set_auto_fetch(TheChannelSM, b), <<>>, <<>>)
          IN /\ b # TheChannelSM.auto_fetch
             /\ SetChannel(r)
             /\ call' = ChanCallOf("set_auto_fetch", NoChanMsg, r)

NextChan == ChanUpdateWithout \/ ChanUpdateWith \/ HostSetAutoFetch

SpecChan == InitChan /\ [][NextChan]_vars

(***************************************************************************)
(* Properties of the coordinator and of the Sharee.                        *)
(***************************************************************************)
\* C1: the coordinator leaves a phase only for the next phase in the order
\* Handshake, Negotiate, Authenticate, Associate, Capabilities, Channels, Final,
\* which it does exactly when the current sub-machine terminated, or for Final
\* on a fatal failure; without a fatal, Final is entered from Channels only.
C1_PhaseOrder ==
    LET order == <<"Handshake", "Negotiate", "Authenticate", "Associate",
                   "Capabilities", "Channels", "Final">>
        idx(p) == CHOOSE i \in 1..7 : order[i] = p
        pre == call.conn_state
        post == connection_seq.state
    IN call.op \in {"update_without_message", "update_with_message"} =>
         /\ post # pre =>
              \/ idx(post) = idx(pre) + 1 /\ call.sub_terminated
              \/ post = "Final" /\ HasFatal(events)
         /\ (call.sub_terminated /\ ~HasFatal(events) /\ pre # "Final") =>
              idx(post) = idx(pre) + 1
         /\ (post = "Final" /\ pre # "Final" /\ ~HasFatal(events)) => pre = "Channels"

\* the whole sequence ran: Channels terminated without a fatal and Final was entered
C1_Witness ==
    /\ call.op = "update_with_message"
    /\ call.conn_state = "Channels"
    /\ call.sub_terminated
    /\ ~HasFatal(events)
    /\ connection_seq.state = "Final"

\* C2: a Sharee update made outside Final whose returned events contain a
\* Fatal leaves the Sharee in Final.
C2_FatalEndsInFinal ==
    (/\ call.op \in {"update_without_body", "update_with_body"}
     /\ call.state # "Final"
     /\ HasFatal(events))
    => state = "Final"

C2_Witness ==
    /\ call.op = "update_with_body"
    /\ call.state = "Connection"
    /\ call.conn_state = "Associate"
    /\ HasFatal(events)
    /\ state = "Final"

\* C3: the Sharee enters Active (state and StateTransition(Active) event) only
\* in an update in which the coordinator terminated and no Fatal was emitted; an
\* update in which the coordinator terminated with a Fatal takes the Sharee from
\* Connection to Final without an Active transition and with the channels
\* context left empty.
C3_ActiveOnlyWithoutFatal ==
    LET entersActive ==
            \E i \in 1..Len(events) : IsTransition(events[i], "ShareeState", "Active")
    IN (call.op \in {"update_without_body", "update_with_body"}
        /\ call.state = "Connection") =>
         /\ (state = "Active" \/ entersActive) =>
               (connection_seq.state = "Final" /\ ~HasFatal(events))
         /\ (HasFatal(events) /\ connection_seq.state = "Final") =>
               (state = "Final" /\ ~entersActive /\ channels_ctx = VirtChannelsCtx_new)

\* C4: update_with_virt_msg updates the machine registered under the name of
\* the message and no other; with no machine under that name nothing is
\* updated, no response is queued and the events are exactly one Warn.
C4_OnlyNamedMachine ==
    [][(state = "Active" /\ call'.op = "update_with_body"
        /\ call'.body.kind = "VirtualChannel") =>
         LET N == call'.body.type
             sms == channels_manager.state_machines
         IN IF N \in DOMAIN sms
            THEN /\ call'.updated = {N}
                 /\ DOMAIN channels_manager'.state_machines = DOMAIN sms
                 /\ \A n \in DOMAIN sms \ {N} :
                        channels_manager'.state_machines[n] = sms[n]
            ELSE /\ call'.updated = {}
                 /\ channels_manager' = channels_manager
                 /\ call'.to_send = <<>>
                 /\ Len(events') = 1
                 /\ events'[1].kind = "Warn"]_vars

\* a clipboard message moved the clipboard machine while a chat machine is registered
C4_Witness ==
    /\ call.op = "update_with_body"
    /\ call.state = "Active"
    /\ call.body.kind = "VirtualChannel"
    /\ call.body.type = "Clipboard"
    /\ call.body.sub = "CapabilitiesRsp"
    /\ call.updated = {"Clipboard"}
    /\ "Chat" \in DOMAIN channels_manager.state_machines
    /\ channels_manager.state_machines["Clipboard"].state = "Disabled"

\* a Handshake message with status Incompatible reached HandshakeSM in Ready
C8_Case ==
    /\ call.op = "update_with_message"
    /\ call.sub.kind = "Handshake"
    /\ call.sub.state = "Ready"
    /\ call.body.type = "Handshake"
    /\ call.body.code = "Incompatible"

\* C8: HandshakeSM in Ready receiving a Handshake message with status
\* Incompatible emits exactly one Fatal and no PacketToSend, the coordinator is
\* in Final afterwards and stays there, so Negotiate is never entered.
C8_IncompatibleIsFatal ==
    [](C8_Case =>
         /\ CountKind(events, "Fatal") = 1
         /\ CountKind(events, "PacketToSend") = 0
         /\ [](connection_seq.state = "Final"))

C8_Witness ==
    /\ C8_Case
    /\ call.conn_state = "Handshake"
    /\ connection_seq.state = "Final"

\* C9: with the coordinator in Final, waiting_for_packet() is false and an
\* update leaves it in Final, sends no packet and produces warnings only.
C9_FinalIsInert ==
    /\ connection_seq.state = "Final" =>
          ~ClientConnectionSeqSM_waiting_for_packet(connection_seq)
    /\ (call.op \in {"update_without_message", "update_with_message"}
        /\ call.conn_state = "Final") =>
          /\ connection_seq.state = "Final"
          /\ \A i \in 1..Len(events) : events[i].kind = "Warn"

\* C10: in Active, update_with_body with a Terminate message ends in Final in
\* the same call with a StateTransition(Final) event; any other message
\* received in Active leaves the Sharee in Active.
C10_TerminateEndsSession ==
    (call.op = "update_with_body" /\ call.state = "Active") =>
        IF call.body.kind = "Message" /\ call.body.type = "Terminate"
        THEN /\ state = "Final"
             /\ \E i \in 1..Len(events) : IsTransition(events[i], "ShareeState", "Final")
        ELSE state = "Active"

C10_Witness ==
    /\ call.op = "update_with_body"
    /\ call.state = "Active"
    /\ call.body.kind = "Message"
    /\ call.body.type = "Terminate"
    /\ state = "Final"

(***************************************************************************)
(* Properties of the accumulator.                                          *)
(***************************************************************************)
\* C5: the results next_packet returned while the stream was fed in chunks
\* are the first results of feeding the same bytes at once, and all of them
\* once next_packet has returned None on the bytes fed so far.
C5_ChunkingIsTransparent ==
    LET all == AllAtOnce(fed, acc_ctx)
    IN /\ Len(out) <= Len(all)
       /\ out = SubSeq(all, 1, Len(out))
       /\ (ret.op = "next_packet" /\ ~ret.result.some) => out = all

\* a stream of two packets went in over several chunks and came out whole
C5_Witness ==
    /\ pending = <<>>
    /\ Len(fed) > 2 * MaxChunk
    /\ Len(out) = 2
    /\ ret.op = "next_packet"
    /\ ~ret.result.some

\* C6: next_packet returns None exactly when the bytes past the cursor do not
\* hold a complete packet: fewer than 4 bytes, fewer than the header size the
\* short bit selects, or fewer than header length plus body length.
C6_NoneIffIncomplete ==
    [][ret'.op = "next_packet" =>
         LET rest == SubSeq(acc.buffer, acc.cursor + 1, Len(acc.buffer))
             short == (rest[4] \div 128) % 2 = 1
             header_len == IF short THEN 4 ELSE 6
             body_len == IF short THEN rest[1] + 256 * rest[2]
                         ELSE rest[1] + 256 * rest[2] + 65536 * rest[3]
                              + 16777216 * rest[4]
             complete == /\ Len(rest) >= 4
                         /\ Len(rest) >= header_len
                         /\ Len(rest) >= header_len + body_len
         IN (~ret'.result.some) <=> ~complete]_vars

\* C7: when next_packet returns Some, be it a packet or a body decoding
\* error, the cursor has advanced by header length plus body length and the
\* buffer is the same; when it returns None, cursor and buffer are unchanged.
C7_CursorAdvance ==
    [][ret'.op = "next_packet" =>
         IF ret'.result.some
         THEN LET header == NowHeader_decode(SubSeq(acc.buffer, acc.cursor + 1,
                                                    acc.cursor + 6))
              IN /\ acc'.cursor = acc.cursor + header.len + header.body_len
                 /\ acc'.buffer = acc.buffer
         ELSE acc' = acc]_vars

\* a packet for a virtual channel the context does not know was stepped over
C7_Witness ==
    /\ ret.op = "next_packet"
    /\ ret.result.some
    /\ ret.result.kind = "Err"
    /\ ret.result.bytes = <<2, 0, 1, 129, 5, 6>>
    /\ acc_ctx = VirtChannelsCtx_new
    /\ acc.cursor >= 6

(***************************************************************************)
(* Properties of the Sharee in Final and of the channels manager.          *)
(***************************************************************************)
\* C11: in Final, waiting_for_packet() is false, and update_without_body
\* returns exactly one event, a PacketToSend carrying a Terminate message, and
\* leaves the state Final.
C11_FinalSendsTerminate ==
    /\ state = "Final" => ~Sharee_waiting_for_packet(TheSharee)
    /\ (call.op = "update_without_body" /\ call.state = "Final") =>
          /\ state = "Final"
          /\ Len(events) = 1
          /\ events[1].kind = "PacketToSend"
          /\ events[1].val = "Terminate"

\* update_without_body was called on a Sharee that a Terminate message ended
C11_Witness ==
    /\ call.op = "update_without_body"
    /\ call.state = "Final"
    /\ connection_seq.state = "Final"
    /\ channels_ctx # VirtChannelsCtx_new
    /\ state = "Final"
    /\ CountKind(events, "PacketToSend") = 1

\* the machines of the manager that do not wait for a packet
ReadyMachines(cm) ==
    {n \in DOMAIN cm.state_machines :
        ~VirtualChannelSM_waiting_for_packet(cm.state_machines[n])}

\* the ready machine that was registered (add_sm) before every other ready one
EarliestRegistered(cm) ==
    {cm.inserted[i] : i \in {j \in 1..Len(cm.inserted) :
        /\ cm.inserted[j] \in ReadyMachines(cm)
        /\ \A k \in 1..(j - 1) : cm.inserted[k] \notin ReadyMachines(cm)}}

\* C12: update_without_virt_msg updates exactly one sub-machine, the
\* earliest-registered (insertion order) among those that do not wait for a
\* packet, and no other; when all of them wait it updates none and emits
\* exactly one Warn.
C12_EarliestRegisteredIsUpdated ==
    [][(state = "Active" /\ call'.op = "update_without_body"
                         /\ call'.state = "Active") =>
          IF ReadyMachines(channels_manager) = {}
          THEN /\ call'.updated = {}
               /\ CountKind(events', "Warn") = 1
          ELSE call'.updated = EarliestRegistered(channels_manager)]_vars

\* what ChannelResponses::push can hold after at most two pushes
ResponseLists ==
    LET one == {[name |-> n, rsp |-> r] : n \in {"Clipboard", "Chat"},
                                          r \in {"CapabilitiesReq", "FormatListRsp"}}
    IN {<<>>} \cup {<<a>> : a \in one} \cup {<<a, b>> : a, b \in one}

\* the event that one channel response has to become
IsEventOf(ctx, r, ev) ==
    IF get_id_by_channel(ctx, r.name) # -1
    THEN LET id == get_id_by_channel(ctx, r.name)
             header == NowPacket_from_virt_channel([encoded_len |-> 1], id).header
         IN /\ ev = PacketToSend("VirtualChannel", <<id>>)
            /\ HasVirtualChannelFlag(NowHeader_flags(header))
            /\ NowHeader_body_type(header) = BodyType_VirtualChannel(id)
    ELSE ev.kind = "Warn"

\* C13: the channel responses of one Active update are mapped in push order:
\* a response whose channel name has an id in the channels context becomes
\* exactly one PacketToSend for a virtual channel with that id, a response
\* without an id becomes exactly one Warn and no packet, and the events keep
\* the order of the pushes.
C13_ResponsesMapInOrder ==
    /\ (call.state = "Active" /\ call.op # "build") =>
          LET n == Len(call.to_send)
              off == Len(events) - n
          IN /\ off >= 0
             /\ \A i \in 1..n : IsEventOf(channels_ctx, call.to_send[i], events[off + i])
             /\ \A i \in 1..off : events[i].kind # "PacketToSend"
    /\ \A rsps \in ResponseLists :
          LET evs == MapResponses(channels_ctx, rsps)
          IN /\ Len(evs) = Len(rsps)
             /\ \A i \in 1..Len(rsps) : IsEventOf(channels_ctx, rsps[i], evs[i])

\* an Active update pushed a response for a channel with an id, while the
\* other channel has none
C13_Witness ==
    /\ call.state = "Active"
    /\ call.op \in {"update_without_body", "update_with_body"}
    /\ Len(call.to_send) = 1
    /\ get_id_by_channel(channels_ctx, call.to_send[1].name) # -1
    /\ events[Len(events)].kind = "PacketToSend"
    /\ \E n \in {"Clipboard", "Chat"} : get_id_by_channel(channels_ctx, n) = -1

\* the clipboard machine of the manager
ClipboardOf(cm) == cm.state_machines["Clipboard"]

\* the step is an update_with_body with a clipboard message of the given kind,
\* received while the clipboard machine is Enabled
ClipboardReceives(sub, code) ==
    /\ state = "Active"
    /\ ClipboardOf(channels_manager).state = "Enabled"
    /\ call'.op = "update_with_body"
    /\ call'.body = [kind |-> "VirtualChannel", type |-> "Clipboard",
                     sub |-> sub, code |-> code]

\* C14: the clipboard's is_owner is false initially; it becomes true exactly
\* when a FormatListRsp without the failure flag is received in Enabled, it
\* becomes false exactly when a FormatListReq of the peer is accepted in
\* Enabled, and a refused FormatListReq, a FormatListRsp with the failure flag
\* and every other message leave it unchanged.
C14_ClipboardOwnership ==
    /\ ClipboardChannelSM_new.is_owner = FALSE
    /\ [][("Clipboard" \in DOMAIN channels_manager.state_machines) =>
            CASE ClipboardReceives("FormatListRsp", "") ->
                   ClipboardOf(channels_manager').is_owner = TRUE
              [] ClipboardReceives("FormatListReq", "accept") ->
                   ClipboardOf(channels_manager').is_owner = FALSE
              [] OTHER ->
                   ClipboardOf(channels_manager').is_owner
                       = ClipboardOf(channels_manager).is_owner]_vars

\* the ownership was taken after a FormatListReq of the peer had been answered
C14_Witness ==
    /\ state = "Active"
    /\ "Clipboard" \in DOMAIN channels_manager.state_machines
    /\ call.op = "update_with_body"
    /\ call.body.sub = "FormatListRsp"
    /\ call.body.code = ""
    /\ ClipboardOf(channels_manager).is_owner
    /\ ClipboardOf(channels_manager).sequence_id > 0

\* the number of bytes of the packets next_packet has returned
RECURSIVE ConsumedBytes(_)
ConsumedBytes(results) ==
    IF results = <<>> THEN 0
    ELSE Len(Head(results).bytes) + ConsumedBytes(Tail(results))

\* C15: after purge_old_packets the cursor is 0 and the buffer holds exactly
\* the bytes not consumed yet, and purging, at any point, does not change the
\* packets that are returned afterwards.
C15_PurgeKeepsUnconsumed ==
    /\ ret.op = "purge_old_packets" =>
          /\ acc.cursor = 0
          /\ acc.buffer = SubSeq(fed, ConsumedBytes(out) + 1, Len(fed))
    /\ Drain(accumulate(purge_old_packets(acc), pending), acc_ctx)
          = Drain(accumulate(acc, pending), acc_ctx)

\* a purge after a returned packet, with bytes left in the buffer and more
\* packets to come
C15_Witness ==
    /\ ret.op = "purge_old_packets"
    /\ Len(out) >= 1
    /\ acc.buffer # <<>>
    /\ Len(Drain(accumulate(acc, pending), acc_ctx)) >= 1

(***************************************************************************)
(* Properties of the headers, the packet constructors and the NowStrings.  *)
(***************************************************************************)
\* C16: for every message, also one whose encoded length exceeds 65535, the
\* header of from_message(m) has body_len() equal to the encoded length and the
\* body type Message(type of m); likewise from_virt_channel(v, id) with the
\* body type VirtualChannel(id).
C16_HeaderCarriesEncodedLen ==
    codec.op \in {"from_message", "from_virt_channel"} =>
        /\ NowHeader_body_len(codec.made.header) = codec.body_len
        /\ NowHeader_body_type(codec.made.header) = codec.body_type

\* C17: for every 4-byte prefix the header decoding yields Short exactly when
\* bit 7 (0x80) of byte 3 is set; with that bit clear, whatever the other bits
\* of byte 3, it reads two more bytes and yields Long.
C17_ShortIffBitSeven ==
    (codec.op = "decode" /\ Len(codec.bytes) >= 4) =>
        IF codec.bytes[4] >= 128
        THEN codec.made.ok /\ NowHeader_is_short(codec.made.header)
        ELSE IF Len(codec.bytes) >= 6
             THEN codec.made.ok /\ ~NowHeader_is_short(codec.made.header)
             ELSE ~codec.made.ok

\* C18: NowHeader::new yields a short header for every body length up to
\* 65535 and a long header for every greater one.
C18_ShortUpToU16Max ==
    codec.op = "new" =>
        (NowHeader_is_short(codec.made.header) <=> codec.body_len <= 65535)

\* the first length that takes a long header, and the last that does not
C18_Witness ==
    /\ codec.op = "new"
    /\ codec.body_len \in {65535, 65536}
    /\ NowHeader_is_short(codec.made.header) = (codec.body_len = 65535)

C20_StringSizeLimit ==
    /\ nstr.op = "try_from" =>
          (nstr.result.ok <=> nstr.len <= nstr.size)
    /\ nstr.op = "decode" =>
          LET expected_size == SizeType_decode(nstr.prefix)
          IN /\ expected_size > nstr.size => ~nstr.result.ok
             /\ (expected_size <= nstr.size /\ nstr.utf8
                   /\ nstr.avail >= expected_size + 1) =>
                    nstr.result = StringOk(expected_size)

\* a string of exactly SIZE bytes was accepted
C20_Witness ==
    /\ nstr.op = "try_from"
    /\ nstr.len = nstr.size
    /\ nstr.result.ok

\* C21: for every enum with an integer discriminant and every raw value,
\* decoding succeeds, gives the named variant for a known value and Other(raw)
\* for any other, and encoding the result gives the raw value back; no
\* discriminant is refused.
C21_UnknownDiscriminantKept ==
    (prim.op = "enum" /\ prim.done) =>
        /\ prim.result.ok
        /\ prim.result.variant =
              (IF prim.raw \in WireEnums[prim.ty].values THEN "Named" ELSE "Other")
        /\ prim.result.value = prim.raw
        /\ prim.again = prim.bytes

\* C22: a status of severity at most 3, status type at most 255 and code at
\* most 65535 packs to (severity << 30) | (type << 16) | code; parsing the u32
\* gives the same three fields, and encoding what was parsed gives the same
\* u32.
C22_StatusPacking ==
    (prim.op = "status" /\ prim.done /\ prim.severity <= 3
        /\ prim.status_type <= 255 /\ prim.code <= 65535) =>
        /\ prim.built.repr.hi = prim.severity * 16384 + prim.status_type
        /\ prim.built.repr.lo = prim.code
        /\ prim.bytes = <<prim.code % 256, prim.code \div 256, prim.status_type,
                          prim.severity * 64>>
        /\ prim.parsed.severity = prim.built.severity
        /\ prim.parsed.severity.value = prim.severity
        /\ prim.parsed.status_type = prim.built.status_type
        /\ prim.parsed.status_type.value = prim.status_type
        /\ prim.parsed.code = prim.built.code
        /\ prim.parsed.code.value = prim.code
        /\ prim.again = prim.bytes

C22_Witness ==
    /\ prim.op = "status"
    /\ prim.done
    /\ prim.severity = 3
    /\ prim.status_type = 255
    /\ prim.code = 65535
    /\ prim.parsed.severity = EnumOk("Named", 3)
    /\ prim.parsed.status_type = EnumOk("Other", 255)
    /\ prim.again = <<255, 255, 255, 192>>

\* bytes of the slice past a position
Remaining(inner, pos) == IF pos <= Len(inner) THEN Len(inner) - pos ELSE 0

\* C23: a read_uN, read_iN, read_n(len) or peek_uN made when fewer bytes remain
\* past the position than it needs returns UnexpectedEof, neither a value nor a
\* panic, and the position stays where it was.
C23_ShortReadIsEof ==
    (/\ prim.op = "cursor"
     /\ prim.call \in {"peek", "read_u", "read_i", "read_n"}
     /\ Remaining(prim.cursor.inner, prim.before) < prim.width) =>
        /\ prim.kind = "UnexpectedEof"
        /\ prim.cursor.pos = prim.before

\* C24: when the peer answers the authenticate exchange with anything but an
\* Authenticate Success, the coordinator is in Final after that update (and so
\* in neither Associate nor a later phase).
C24_AuthFailureEndsInFinal ==
    (/\ call.op = "update_with_message"
     /\ call.conn_state = "Authenticate"
     /\ call.sub.state = "PostAuth"
     /\ ~(call.body.type = "Authenticate" /\ call.body.sub = "Success")) =>
        connection_seq.state = "Final"

\* the auth types published by the negotiation that the last update completed
Negotiated(evs) ==
    {i \in 1..Len(evs) : evs[i].kind = "Data" /\ evs[i].val = "AvailableAuthTypes"}

\* C25: AuthenticateSM leaves Initial, and goes on to send its token, only if
\* its configured auth type is among the types common to the local list and
\* the peer's negotiate list; otherwise the connection sequence fails and no
\* authenticate message is sent.
C25_AuthOnlyIfNegotiated ==
    [][\A i \in Negotiated(events) :
          (/\ connection_seq.state = "Authenticate"
           /\ connection_seq.current_sm.kind = "Authenticate"
           /\ connection_seq.current_sm.state = "Initial"
           /\ connection_seq.current_sm.auth \notin Range(events[i].data)) =>
              /\ connection_seq'.current_sm.state # "Ongoing"
              /\ connection_seq'.state = "Final"
              /\ CountKind(events', "PacketToSend") = 0]_vars

\* C26: on the peer's negotiate message NegotiateSM publishes exactly the auth
\* types found both in the peer's list and in the local supported list, and is
\* Terminated after that same update (a coordinator in Negotiate moves on to
\* Authenticate).
C26_NegotiatePublishesIntersection ==
    (/\ call.op = "update_with_message"
     /\ call.sub.kind = "Negotiate"
     /\ call.sub.state = "Ready"
     /\ call.body.type = "Negotiate") =>
        /\ Cardinality(Negotiated(events)) = 1
        /\ \A i \in Negotiated(events) :
              Range(events[i].data) =
                  Range(call.auths) \cap Range(sm_data.supported_auths)
        /\ \E i \in 1..Len(events) :
              IsTransition(events[i], "BasicState", "Terminated")
        /\ call.sub_terminated
        /\ call.conn_state = "Negotiate" => connection_seq.state = "Authenticate"

C26_Witness ==
    /\ call.op = "update_with_message"
    /\ call.sub.kind = "Negotiate"
    /\ call.sub.state = "Ready"
    /\ call.auths = <<"PFP">>
    /\ sm_data.supported_auths = <<"PFP", "SRP">>
    /\ \E i \in Negotiated(events) : events[i].data = <<"PFP">>

Names(defs) == {defs[i].name : i \in 1..Len(defs)}

CtxNames(ctx) == {ctx[i] : i \in DOMAIN ctx}

\* the update in which the Channels sub-sequence terminates: the open request
\* carried the channel definitions the shared data held since it was sent
ChannelsTerminates ==
    /\ connection_seq.current_sm.kind = "Channels"
    /\ connection_seq.current_sm.state = "WaitOpenResponse"
    /\ connection_seq'.current_sm.kind = "Channels"
    /\ connection_seq'.current_sm.state = "Terminated"

\* C27 as stated: when the Channels sub-sequence terminates, every channel
\* definition in the shared data, and every entry of the virtual-channels
\* context, names a channel of the client's open request.
C27_DefsWithinOpenRequest ==
    [][ChannelsTerminates =>
          /\ Names(sm_data'.channel_defs) \subseteq Names(sm_data.channel_defs)
          /\ CtxNames(channels_ctx') \subseteq Names(sm_data.channel_defs)]_vars

\* C27 amended: when the Channels sub-sequence terminates, the channel
\* definitions in the shared data are those of the peer's open response, and
\* every entry of the virtual-channels context names a channel of that
\* response.
C27_DefsAreOpenResponse ==
    [][ChannelsTerminates =>
          /\ sm_data'.channel_defs = call'.defs
          /\ CtxNames(channels_ctx') \subseteq Names(call'.defs)]_vars

C27_Witness ==
    /\ call.op = "update_with_body"
    /\ call.sub.kind = "Channels"
    /\ call.sub.state = "WaitOpenResponse"
    /\ connection_seq.current_sm.state = "Terminated"
    /\ state = "Active"
    /\ "Custom" \in Names(sm_data.channel_defs)
    /\ "Custom" \in CtxNames(channels_ctx)

\* the ids and the names of the definitions are pairwise distinct
DistinctDefs(defs) ==
    \A i, j \in 1..Len(defs) :
        i # j => /\ defs[i].name # defs[j].name
                 /\ defs[i].flags % 256 # defs[j].flags % 256

\* every definition is found in the context under the low byte of its flags,
\* by id and by name
DefsInContext(ctx, defs) ==
    \A i \in 1..Len(defs) :
        /\ get_id_by_channel(ctx, defs[i].name) = defs[i].flags % 256
        /\ get_channel_by_id(ctx, defs[i].flags % 256) = defs[i].name

\* C28 as stated: once the Sharee is Active, every channel definition d of the
\* shared data has get_id_by_channel(d.name) = d.flags.value mod 256 and
\* get_channel_by_id of that id = d.name.
C28_EveryDefInContext ==
    state = "Active" => DefsInContext(channels_ctx, sm_data.channel_defs)

\* C28 amended: the same, when the definitions of the shared data have pairwise
\* distinct names and pairwise distinct ids.
C28_DistinctDefsInContext ==
    (state = "Active" /\ DistinctDefs(sm_data.channel_defs)) =>
        DefsInContext(channels_ctx, sm_data.channel_defs)

C28_Witness ==
    /\ state = "Active"
    /\ sm_data.channel_defs = <<NowChannelDef("Clipboard", 1), NowChannelDef("Chat", 258)>>
    /\ get_id_by_channel(channels_ctx, "Chat") = 2
    /\ get_channel_by_id(channels_ctx, 1) = "Clipboard"

(***************************************************************************)
(* The pump loop.                                                          *)
(***************************************************************************)
\* the events the machines report an unexpected call with: the Fatal of the
\* connection sub-sequences, the Error of the Sharee and of the channel machines
UnexpectedCallEvents ==
    {unexpected_call(n) : n \in {"HandshakeSM", "NegotiateSM", "AssociateSM",
                                 "CapabilitiesSM", "ChannelsSM", "AuthenticateSM"}}
    \cup {Error(t) : t \in {"unexpected call to update_without_chan_msg",
                            "unexpected call to update_with_chan_msg",
                            "unexpected call in final state",
                            "unexpected call in final state with a now message",
                            "unexpected call in final state with a virtual channel message",
                            "unexpected call in connection state with a virtual channel message"}}

\* the machines of the channels manager that do not wait for a packet
NotWaiting(cm) ==
    {n \in DOMAIN cm.state_machines :
        ~VirtualChannelSM_waiting_for_packet(cm.state_machines[n])}

\* C29: in Active, every update_without_body the pump makes moves one channel
\* machine to a state that waits for a packet, so that after at most one call
\* per registered machine the Sharee waits for a packet again
C29_PumpCallMakesMachineWait ==
    [][(state = "Active" /\ ~Sharee_waiting_for_packet(TheSharee)
            /\ call'.op = "update_without_body")
        => Cardinality(NotWaiting(channels_manager'))
              < Cardinality(NotWaiting(channels_manager))]_vars

\* C30: under the pump loop no update reports an unexpected call
C30_NoUnexpectedCall ==
    \A i \in 1..Len(events) : events[i] \notin UnexpectedCallEvents

\* the pump has handed a channel message to an Active Sharee that was waiting
C30_Witness ==
    /\ call.op = "update_with_body"
    /\ call.state = "Active"
    /\ call.body.kind = "VirtualChannel"
    /\ call.updated # {}
    /\ C30_NoUnexpectedCall

(***************************************************************************)
(* State transitions and their events.                                     *)
(***************************************************************************)
\* the states carried by the StateTransition events of type `ty`, in order
RECURSIVE TransOf(_, _)
TransOf(evs, ty) ==
    IF evs = <<>> THEN <<>>
    ELSE IF Head(evs).kind = "StateTransition" /\ Head(evs).val = ty
         THEN Head(evs).data \o TransOf(Tail(evs), ty)
         ELSE TransOf(Tail(evs), ty)

\* `seq` tells the way from state `b` to state `a`: every entry is a change,
\* and the last one is `a`
Chain(b, seq, a) ==
    /\ seq = <<>> => a = b
    /\ seq # <<>> => seq[Len(seq)] = a
    /\ \A i \in 1..Len(seq) : seq[i] # (IF i = 1 THEN b ELSE seq[i - 1])

\* the type of the states of a machine
StateTypeOf(sm) ==
    CASE sm.kind \in {"Handshake", "Negotiate", "Capabilities"} -> "BasicState"
      [] sm.kind = "Associate" -> "AssociateState"
      [] sm.kind = "Channels" -> "ChannelPairingState"
      [] sm.kind = "Chat" -> "ChatState"
      [] sm.kind = "Clipboard" -> "ClipboardState"
      [] OTHER -> "-"

\* the state the current sub-machine is left in by the call: the coordinator
\* replaces a machine only once it is terminated
SubStateAfter ==
    IF connection_seq'.current_sm.kind = connection_seq.current_sm.kind
    THEN connection_seq'.current_sm.state
    ELSE "Terminated"

ShareeTransitionsTold == Chain(state, TransOf(events', "ShareeState"), state')

SubTransitionsTold ==
    LET sm == connection_seq.current_sm
    IN /\ (state = "Connection" /\ StateTypeOf(sm) # "-")
            => Chain(sm.state, TransOf(events', StateTypeOf(sm)), SubStateAfter)
       /\ \A ty \in {"BasicState", "AssociateState", "ChannelPairingState"} :
             (state # "Connection" \/ ty # StateTypeOf(sm)) => TransOf(events', ty) = <<>>

ChannelTransitionsTold(kind) ==
    /\ \A n \in DOMAIN channels_manager.state_machines :
          LET sm == channels_manager.state_machines[n]
          IN sm.kind = kind
               => Chain(sm.state, TransOf(events', StateTypeOf(sm)),
                        channels_manager'.state_machines[n].state)
    /\ (\A n \in DOMAIN channels_manager.state_machines :
            channels_manager.state_machines[n].kind # kind)
          => TransOf(events', StateTypeOf([kind |-> kind])) = <<>>

\* C31: in every update, the StateTransition events of a machine tell its
\* changes of state, one event per change, in order, each carrying the new
\* state, and there is no such event without a change
C31_TransitionsTold ==
    [][/\ ShareeTransitionsTold
       /\ SubTransitionsTold
       /\ ChannelTransitionsTold("Clipboard")
       /\ ChannelTransitionsTold("Chat")]_vars

\* C32: Final is kept by every call, which changes nothing of the Sharee, and
\* an update_with_body made in Final yields one Error event and sends nothing
C32_FinalIsKept ==
    [][state = "Final"
        => /\ TheSharee' = TheSharee
           /\ call'.op = "update_with_body"
                => /\ Len(events') = 1
                   /\ events'[1].kind = "Error"
                   /\ call'.to_send = <<>>]_vars

\* a virtual-channel body was handed to a Sharee in Final
C32_Witness ==
    /\ state = "Final"
    /\ call.state = "Final"
    /\ call.op = "update_with_body"
    /\ call.body.kind = "VirtualChannel"
    /\ events = <<Error("unexpected call in final state with a virtual channel message")>>

(***************************************************************************)
(* Unexpected messages in the connection sub-sequences.                    *)
(***************************************************************************)
\* the message a waiting sub-sequence expects
ExpectedBy(sm, body) ==
    CASE sm.kind = "Handshake" -> body.type = "Handshake"
      [] sm.kind = "Negotiate" -> body.type = "Negotiate"
      [] sm.kind = "Associate" /\ sm.state = "WaitInfo" ->
           body.type = "Associate" /\ body.sub = "Info"
      [] sm.kind = "Associate" ->
           body.type = "Associate" /\ body.sub = "Response"
      [] sm.kind = "Capabilities" -> body.type = "Capabilities"
      [] sm.kind = "Channels" -> body.type = "Channel"
      [] OTHER -> TRUE

SubSequences == {"Handshake", "Negotiate", "Associate", "Capabilities", "Channels"}

\* the last call handed a waiting sub-sequence a message it does not expect
UnexpectedMessageGiven(c) ==
    /\ c.op = "update_with_body"
    /\ c.state = "Connection"
    /\ c.body.kind = "Message"
    /\ c.sub.kind \in SubSequences
    /\ SM_waiting_for_packet(c.sub)
    /\ ~ExpectedBy(c.sub, c.body)

\* C33: a waiting connection sub-sequence that receives a message it does not
\* expect emits one Warn and nothing else, and is left as it was: same state,
\* not terminated, still waiting for the expected message
C33_UnexpectedMessageWarns ==
    UnexpectedMessageGiven(call)
      => /\ Len(events) = 1
         /\ events[1].kind = "Warn"
         /\ call.to_send = <<>>
         /\ state = "Connection"
         /\ connection_seq.state = call.conn_state
         /\ connection_seq.current_sm = call.sub
         /\ ~SM_is_terminated(connection_seq.current_sm)
         /\ SM_waiting_for_packet(connection_seq.current_sm)

\* the Channels sub-sequence, waiting for the open response, was handed a
\* Handshake message
C33_Witness ==
    /\ UnexpectedMessageGiven(call)
    /\ call.sub = SubSM("Channels", "WaitOpenResponse")
    /\ call.body.type = "Handshake"
    /\ events = <<unexpected_msg("ChannelsSM")>>

(***************************************************************************)
(* The clipboard and chat machines driven directly.                        *)
(***************************************************************************)
\* the last call handed the clipboard machine, in Enabled, a message `sub`
EnabledGot(sub) ==
    /\ call.op = "update_with_chan_msg"
    /\ call.before.kind = "Clipboard"
    /\ call.before.state = "Enabled"
    /\ call.msg.chan = "Clipboard"
    /\ call.msg.sub = sub

\* the call invoked no callback, emitted one Warn and left the machine and its
\* data as they were
OnlyWarned ==
    /\ call.callbacks = <<>>
    /\ Len(events) = 1
    /\ events[1].kind = "Warn"
    /\ call.to_send = <<>>
    /\ TheChannelSM = call.before

\* C34: in Enabled, on_format_data_req is invoked for a FormatDataReq exactly
\* when is_owner or auto_fetch holds, on_format_data_rsp for a FormatDataRsp
\* exactly when is_owner does not hold; otherwise the call only warns
C34_FormatDataGuards ==
    /\ EnabledGot("FormatDataReq")
         => IF call.before.is_owner \/ call.before.auto_fetch
            THEN call.callbacks = <<"on_format_data_req">> /\ events = <<>>
            ELSE OnlyWarned
    /\ EnabledGot("FormatDataRsp")
         => IF ~call.before.is_owner
            THEN call.callbacks = <<"on_format_data_rsp">> /\ events = <<>>
            ELSE OnlyWarned

\* a FormatDataReq reached a machine that neither owns the clipboard nor
\* fetches automatically
C34_Witness ==
    /\ EnabledGot("FormatDataReq")
    /\ ~call.before.is_owner
    /\ ~call.before.auto_fetch
    /\ OnlyWarned

\* C35: a CapabilitiesRsp with the failure flag received in Capabilities yields
\* one Error, no ControlReq and no transition, and from then on the machine
\* never gets to Disabled or Enabled
C35_RefusedCapabilitiesIsTerminal ==
    /\ CapabilitiesRefused(call.op, call.msg, call.before)
         => /\ Len(events) = 1
            /\ events[1].kind = "Error"
            /\ call.to_send = <<>>
            /\ TheChannelSM.state = "Capabilities"
    /\ call.refused => TheChannelSM.state \notin {"Disabled", "Enabled"}

\* the last call handed the clipboard machine, in Enabled, a FormatListReq
FormatListAsked == EnabledGot("FormatListReq")

ChatGot(sub) ==
    /\ call.op = "update_with_chan_msg"
    /\ call.before.kind = "Chat"
    /\ call.msg.chan = "Chat"
    /\ call.msg.sub = sub

\* C37: on_message is invoked only for a text message received in Active, and
\* then on_synced was invoked by an earlier call, for a Sync message received
\* in Sync; a text message received in Initial or Sync invokes no callback
\* and leaves the machine as it was
C37_MessageOnlyWhenActive ==
    /\ "on_message" \in Range(call.callbacks)
         => /\ ChatGot("Text")
            /\ call.before.state = "Active"
            /\ call.synced
    /\ "on_synced" \in Range(call.callbacks)
         => /\ ChatGot("Sync")
            /\ call.before.state = "Sync"
    /\ (ChatGot("Text") /\ call.before.state \in {"Initial", "Sync"})
         => /\ call.callbacks = <<>>
            /\ TheChannelSM = call.before

\* a text message was delivered to the host
C37_Witness ==
    /\ ChatGot("Text")
    /\ call.before.state = "Active"
    /\ call.callbacks = <<"on_message">>
    /\ call.synced

(***************************************************************************)
(* Containers.                                                             *)
(***************************************************************************)
\* a BytesK was decoded from the requested slice
BytesDecoded ==
    /\ prim.op = "container"
    /\ prim.done
    /\ prim.as_bytes.ok

\* C38: decoding a BytesK leaves the cursor right after the payload, K/8 +
\* count bytes further, where decoding a VecK of u8 from the same bytes
\* leaves it
C38_BytesLeavesCursorAfterPayload ==
    BytesDecoded
      => /\ prim.as_bytes.cursor.pos
               = prim.start + prim.bits \div 8 + Len(prim.as_bytes.items)
         /\ prim.as_vec.ok
         /\ prim.as_vec.cursor = prim.as_bytes.cursor

(***************************************************************************)
(* NowString on the wire.                                                  *)
(***************************************************************************)
\* C39: a NowStringN of L <= N bytes is encoded without a panic as a length
\* prefix equal to L, the L bytes and one NUL byte, and decoding what was
\* written gives the string back
C39_StringEncodes ==
    nstr.op = "encode"
      => /\ nstr.wrote.kind = "Ok"
         /\ SizeType_decode(nstr.wrote.prefix) = nstr.len
         /\ Len(nstr.wrote.prefix) = SizeType_len(nstr.size)
         /\ nstr.wrote.bytes = nstr.len
         /\ nstr.wrote.nul = 1
         /\ nstr.result = StringOk(nstr.len)

(***************************************************************************)
(* The reserved bits of a status.                                          *)
(***************************************************************************)
\* bits 24 to 29 of the u32 encoded little-endian in `b`
ReservedBits(b) == b[4] % 64

\* C40: every NowStatus, built by the builder or decoded from any u32,
\* encodes to a u32 whose reserved bits 24 to 29 are zero
C40_ReservedBitsZeroOnEncode ==
    /\ (prim.op = "status" /\ prim.done)
         => ReservedBits(prim.bytes) = 0 /\ ReservedBits(prim.again) = 0
    /\ (prim.op = "status_raw" /\ prim.done) => ReservedBits(prim.again) = 0

====
